---- MODULE Spec2Model ----
(***************************************************************************)
(* go-sqlmock: the expectation queue of the sqlmock connection, the calls  *)
(* that consume it (Begin, Commit, Rollback, Prepare, Query, Exec, Close,  *)
(* Ping and their context-aware forms), the artificial delay raced against *)
(* context cancellation, and ExpectationsWereMet.                          *)
(*                                                                         *)
(* A run is a test: the test goroutine declares the expectations of its    *)
(* script one by one (Expect), may switch the matching mode and may verify *)
(* (ExpectationsWereMet), while NumCallers application goroutines issue    *)
(* the calls of the test in any order and interleaving.  Every Lock() of   *)
(* an expectation is a step of its own, so the walks of concurrent callers *)
(* interleave element by element.                                          *)
(***************************************************************************)
EXTENDS Integers, Sequences, FiniteSets, TLC

\* ---------------------------------------------------------------- bounds
NumCallers == 2
MaxDelay == 1
MaxQueue == 3
MaxRows == 2
MaxLen == 2
MaxByte == 2

\* result sets of one query, and advances made past the end of a result set
MaxSets == 2
MaxOver == 1

\* columns of a *Rows under construction
MaxCols == 2

\* arguments of a call
MaxArgs == 2

\* mock databases made by one test binary
MaxInst == 3

\* connections that the first *sql.DB opens in its life; the others open one
MaxConn == 2

Callers == 1..NumCallers

\* ---------------------------------------------------------------- values
KindOnly == {"Begin", "Commit", "Rollback", "Close", "Ping"}
SqlKinds == {"Prepare", "Query", "Exec"}
Kinds == KindOnly \cup SqlKinds
\* the wrappers that wait out ex.delay before they return
Delayed == {"Begin", "Ping", "Prepare", "Query", "Exec"}

\* an expectation as declared: commonExpectation + the fields of its kind
Exp(kind, sql, hasArgs, args, err, ret, delay, mustClose) ==
    [kind |-> kind, sql |-> sql, hasArgs |-> hasArgs, args |-> args,
     err |-> err, ret |-> ret, delay |-> delay, mustClose |-> mustClose,
     triggered |-> FALSE, closed |-> FALSE]

\* a call of the application: the operation, its SQL text and arguments, and
\* whether it entered through the context-aware method
Call(op, sql, args, ctx) == [op |-> op, sql |-> sql, args |-> args, ctx |-> ctx]

\* what a call returned: the result code, the expectation it triggered (exp),
\* the expectation it ended at (at: the one selected or named by the error), the
\* part of the delay it waited, and the first pending expectation when it began
NoResult == [code |-> "pending", exp |-> 0, at |-> 0, waited |-> 0, fp |-> 0]
IdleG == [pc |-> "idle", ci |-> 0, n |-> 0, idx |-> 0, fulfilled |-> 0,
          exp |-> 0, out |-> "none", remaining |-> 0, fp |-> 0]

\* ---------------------------------------------------------------- matching
\* queryMatcher.Match(expectSQL, query): nil error iff the texts agree
QueryMatch(expectSQL, query) == expectSQL = query

\* argsMatches: no declared list accepts anything; otherwise same length and
\* every position equal
argsMatches(e, args) ==
    \/ ~e.hasArgs
    \/ /\ Len(args) = Len(e.args)
       /\ \A k \in 1..Len(args) : args[k] = e.args[k]

\* a test of a pending expectation that looks at its kind only
attemptMatchKindOnly(e, c) == e.kind = c.op

\* the unordered-mode test of one pending expectation inside the loop of
\* prepare / query / exec
attemptMatch(e, c) ==
    /\ e.kind = c.op
    /\ QueryMatch(e.sql, c.sql)
    /\ (c.op = "Prepare" \/ argsMatches(e, c.args))

\* ---------------------------------------------------------------- state
VARIABLES
    expected,      \* c.expected: the queue, in declaration order
    mu,            \* mu[i]: the caller holding expectation i's Mutex, 0 = free
    ordered,       \* c.ordered
    monitorPings,  \* c.monitorPings
    drvMu,         \* c.drv (mockDriver) Mutex: the caller holding it, 0 = free
    script,        \* the steps the test goroutine has still to take
    par,           \* how many calls the test lets run at the same time
    released,      \* the test has started issuing its calls
    calls,         \* the calls of the test, by call number
    todo,          \* the call numbers not yet issued
    g,             \* g[p]: where caller goroutine p is in its call
    res,           \* res[ci]: what call ci returned
    ctxDone,       \* ctxDone[ci]: ctx.Done() of call ci is closed
    vpc, vidx, vn, vres,   \* ExpectationsWereMet on the test goroutine
    selCount,      \* selCount[i]: how many calls set expectation i triggered
    order,         \* the call numbers in the order they were issued
    switched,      \* the mode was changed after the calls had begun
    raced,         \* some call was issued before the last declaration
    overlap,       \* some call was issued while another was in flight
    vlate,         \* ExpectationsWereMet began after every call had returned
    early,         \* calls whose context was cancelled before their delay elapsed
    rs,            \* the rowSets of a query: its Rows, cursor, raw list, close flag
    mem,           \* the byte slices made by rawBytes, by allocation number
    app,           \* the *sql.Rows over rs and what the test has kept from it
    built,         \* a *Rows under construction and the AddRow call made on it
    cmp,           \* an argument comparison: the expectation, the call, the result
    pool,          \* the mockDriver registry and the results of the New calls
    legacy,        \* the single connection of the first driver and its calls
    worker         \* the calls of the goroutine-based context wrappers

vars == <<expected, mu, ordered, monitorPings, drvMu, script, par, released, calls,
          todo, g, res, ctxDone, vpc, vidx, vn, vres, selCount, order, switched,
          raced, overlap, vlate, early, rs, mem, app, built, cmp, pool, legacy,
          worker>>

verif == <<vpc, vidx, vn, vres, vlate>>
ghost == <<order, switched, raced, overlap>>
harness == <<par, calls, monitorPings>>
engine == <<expected, mu, ordered, monitorPings, drvMu, script, par, released, calls,
            todo, g, res, ctxDone, vpc, vidx, vn, vres, selCount, order, switched,
            raced, overlap, vlate, early>>
rowvars == <<rs, mem, app>>
units == <<built, cmp, pool, legacy, worker>>

\* ---------------------------------------------------------------- the tests
\* the steps of a test goroutine
DoExpect(e) == [op |-> "expect", e |-> e, b |-> FALSE]
DoOrder(b) == [op |-> "order", e |-> 0, b |-> b]
DoGo == [op |-> "go", e |-> 0, b |-> FALSE]
DoJoin == [op |-> "join", e |-> 0, b |-> FALSE]
DoVerify == [op |-> "verify", e |-> 0, b |-> FALSE]

\* a test: the steps of its goroutine, the calls it issues once it has taken
\* its "go" step (one at a time on the test goroutine itself when par = 1, from
\* goroutines of their own otherwise), and the options of New
Scenario(steps, cs, p, pings) ==
    [script |-> steps, calls |-> cs, par |-> p, pings |-> pings]

\* the test of most *_test.go files: declare, issue the calls, wait for them,
\* verify
Steps(es) == [i \in 1..Len(es) |-> DoExpect(es[i])]
Typical(es) == Steps(es) \o <<DoGo, DoJoin, DoVerify>>

\* the sequences of n distinct kinds
DistinctKinds(n) ==
    {ks \in [1..n -> Kinds] : \A i, j \in 1..n : i # j => ks[i] # ks[j]}

\* an expectation of kind k that succeeds; the i-th SQL text for the SQL kinds
Plain(k, i) ==
    Exp(k, IF k \in SqlKinds THEN i ELSE 0, FALSE, <<>>, FALSE, TRUE, 0, FALSE)

\* the call an expectation was declared for
CallFor(e, ctx) == Call(e.kind, e.sql, e.args, ctx)

\* P3, TestPingOrderedWrongOrder: expectations of distinct kinds, the matching
\* calls issued one after the other in any order
OrderedTests ==
    {Scenario(Typical([i \in 1..Len(ks) |-> Plain(ks[i], i)]),
              [i \in 1..Len(ks) |-> CallFor(Plain(ks[i], i), FALSE)], 1, TRUE) :
        ks \in UNION {DistinctKinds(m) : m \in 1..MaxQueue}}

\* P4: unordered mode, expectations of the SQL kinds with pairwise distinct
\* texts, the matching calls issued one after the other in any order
UnorderedTests ==
    {Scenario(<<DoOrder(FALSE)>> \o Typical([i \in 1..Len(ks) |-> Plain(ks[i], i)]),
              [i \in 1..Len(ks) |-> CallFor(Plain(ks[i], i), FALSE)], 1, TRUE) :
        ks \in UNION {[1..m -> SqlKinds] : m \in 1..MaxQueue}}

\* TestGoroutineExecutionWithUnorderedExpectationMatching: unordered mode,
\* ExpectExec with pairwise distinct texts, every Exec from a goroutine of its own
GoroutineTests ==
    {Scenario(<<DoOrder(FALSE)>> \o Typical([i \in 1..n |-> Plain("Exec", i)]),
              [i \in 1..n |-> CallFor(Plain("Exec", i), FALSE)], NumCallers, TRUE) :
        n \in 1..MaxQueue}

\* two goroutines make the same call against one or two expectations for it
RaceTests ==
    {Scenario(<<DoOrder(b)>> \o Typical([i \in 1..n |-> Plain(k, 1)]),
              [i \in 1..2 |-> CallFor(Plain(k, 1), FALSE)], NumCallers, TRUE) :
        b \in BOOLEAN, k \in {"Begin", "Exec", "Close"}, n \in 1..2}

\* one expectation of an SQL kind, with or without declared arguments, alone or
\* followed by ExpectCommit; a call whose kind, text or arguments may differ,
\* then possibly the call that was expected
MismatchTests ==
    {Scenario(Typical(<<Exp(k, 1, ha, <<42>>, FALSE, TRUE, 0, FALSE)>> \o more),
              <<Call(op, q, a, FALSE)>>
                  \o (IF retry THEN <<Call(k, 1, <<42>>, FALSE)>> ELSE <<>>), 1, TRUE) :
        k \in SqlKinds, ha \in BOOLEAN, more \in {<<>>, <<Plain("Commit", 0)>>},
        op \in SqlKinds, q \in {1, 2}, a \in {<<>>, <<42>>, <<43>>},
        retry \in BOOLEAN}

\* TestPrepareExpectationNotFulfilled and the RowsWillBeClosed / WillBeClosed
\* tests: a Query or Prepare expectation that may have to be closed, alone or
\* followed by ExpectCommit, and a verification that may come at any moment
CloseTests ==
    {Scenario(Steps(<<Exp(k, 1, FALSE, <<>>, FALSE, TRUE, 0, mc)>> \o more)
                  \o <<DoGo>> \o join \o <<DoVerify>>,
              <<Call(k, 1, <<>>, FALSE)>>
                  \o [i \in 1..Len(more) |-> CallFor(more[i], FALSE)], p, TRUE) :
        k \in {"Query", "Prepare"}, mc \in BOOLEAN,
        more \in {<<>>, <<Plain("Commit", 0)>>},
        join \in {<<>>, <<DoJoin>>}, p \in {1, NumCallers}}

\* TestContextExecCancel, TestContextExecErrorDelay, TestPingExpectationsContextTimeout:
\* one expectation with a delay and an error or a success, the call made plainly
\* or with a context that may be cancelled at any moment, then made again
DelayTests ==
    {Scenario(Typical(<<Exp(k, IF k \in SqlKinds THEN 1 ELSE 0, FALSE, <<>>,
                            err, ret, d, FALSE)>>),
              [i \in 1..2 |-> Call(k, IF k \in SqlKinds THEN 1 ELSE 0, <<>>, ctx)],
              1, pings) :
        k \in Delayed, err \in BOOLEAN, ret \in BOOLEAN, d \in 0..MaxDelay,
        ctx \in BOOLEAN, pings \in BOOLEAN}

\* a test that declares its last expectation after its first call
LateTests ==
    {Scenario(<<DoExpect(Exp(k1, 1, FALSE, <<>>, FALSE, TRUE, 0, TRUE)), DoGo,
                DoExpect(Plain(k2, 2)), DoJoin, DoVerify>>,
              <<Call(k1, 1, <<>>, FALSE), CallFor(Plain(k2, 2), FALSE)>>, p, TRUE) :
        k1 \in {"Query", "Prepare", "Begin"}, k2 \in {"Exec", "Commit"},
        p \in {1, NumCallers}}

\* TestWrongExpectations, TestPingExpectationsUnexpectedPing and the unordered
\* tests with arguments: no or up to three Query or Exec expectations that differ in
\* text or arguments, in either mode, and two calls that may or may not be
\* among the expected ones
StrayTests ==
    {Scenario(<<DoOrder(b)>>
                  \o Typical(SubSeq(<<Exp(k, 1, TRUE, <<42>>, FALSE, TRUE, 0, FALSE),
                                      Exp(k, 1, TRUE, <<43>>, FALSE, TRUE, 0, FALSE),
                                      Exp(k, 2, FALSE, <<>>, FALSE, TRUE, 0, FALSE)>>, 1, m)),
              <<c1, c2>>, 1, TRUE) :
        b \in BOOLEAN, k \in {"Query", "Exec"}, m \in 0..3,
        c1 \in {Call(op, q, a, FALSE) :
                   op \in {"Query", "Exec"}, q \in {1, 2}, a \in {<<42>>, <<43>>}},
        c2 \in {Call(op, q, a, FALSE) :
                   op \in {"Query", "Exec"}, q \in {1, 2}, a \in {<<42>>, <<43>>}}}

\* TestRunExecsWithExpectedErrorMeetsExpectations and its Query twin, for every
\* kind and both modes: an expectation programmed with an error, with or
\* without a payload next to it, followed by one of the same kind that succeeds
ErrorTests ==
    {Scenario(<<DoOrder(b)>>
                  \o Typical(<<Exp(k, IF k \in SqlKinds THEN 1 ELSE 0, FALSE, <<>>,
                                   TRUE, ret, 0, FALSE),
                               Plain(k, 2)>>),
              <<Call(k, IF k \in SqlKinds THEN 1 ELSE 0, <<>>, FALSE),
                CallFor(Plain(k, 2), FALSE)>>, 1, TRUE) :
        b \in BOOLEAN, k \in Kinds, ret \in BOOLEAN}

\* MatchExpectationsInOrder "may be turned on anytime during tests": three
\* expectations declared in one mode, the mode changed at some moment between
\* the calls, which come one after the other in any order
SwitchTests ==
    {Scenario(<<DoOrder(b)>> \o Steps([i \in 1..3 |-> Plain(ks[i], i)])
                  \o <<DoGo, DoOrder(~b), DoJoin, DoVerify>>,
              [i \in 1..3 |-> CallFor(Plain(ks[i], i), FALSE)], 1, TRUE) :
        b \in BOOLEAN, ks \in [1..3 -> {"Begin", "Exec"}]}

\* closing the database in either mode: up to MaxQueue expectations, each an
\* ExpectClose that succeeds, an ExpectClose programmed with an error or an
\* ExpectBegin, and a Close that comes alone, with a Begin or twice
ClosingTests ==
    {Scenario(<<DoOrder(b)>> \o Typical(es), cs, 1, TRUE) :
        b \in BOOLEAN,
        es \in UNION {[1..m -> {Plain("Close", 0), Plain("Begin", 0),
                                Exp("Close", 0, FALSE, <<>>, TRUE, TRUE, 0, FALSE)}] :
                          m \in 0..MaxQueue},
        cs \in {<<Call("Close", 0, <<>>, FALSE)>>,
                <<Call("Begin", 0, <<>>, FALSE), Call("Close", 0, <<>>, FALSE)>>,
                <<Call("Close", 0, <<>>, FALSE), Call("Close", 0, <<>>, FALSE)>>}}

\* TestMonitorPingsDisabled: a mock made without MonitorPingsOption, in either
\* mode; ExpectPing among the declarations, with or without an ExpectBegin
\* around it, and a Ping that comes alone, twice or around a Begin
PingOffTests ==
    {Scenario(<<DoOrder(b)>> \o Typical(es), cs, 1, FALSE) :
        b \in BOOLEAN,
        es \in {<<Plain("Ping", 0)>>, <<Plain("Ping", 0), Plain("Ping", 0)>>,
                <<Plain("Ping", 0), Plain("Begin", 0)>>,
                <<Plain("Begin", 0), Plain("Ping", 0)>>},
        cs \in {<<Call("Ping", 0, <<>>, FALSE)>>,
                <<Call("Ping", 0, <<>>, FALSE), Call("Ping", 0, <<>>, FALSE)>>,
                <<Call("Ping", 0, <<>>, FALSE), Call("Begin", 0, <<>>, FALSE)>>}}

\* more goroutines than expectations: unordered mode, one or two ExpectExec
\* with the same text, and the same Exec made NumCallers + 1 times, NumCallers
\* of them at a time
ClaimTests ==
    {Scenario(<<DoOrder(FALSE)>> \o Typical([i \in 1..n |-> Plain("Exec", 1)]),
              [i \in 1..(NumCallers + 1) |-> CallFor(Plain("Exec", 1), FALSE)],
              NumCallers, TRUE) :
        n \in 1..2}

\* Close against another call: ExpectBegin and ExpectClose in either order and
\* either mode, Begin and Close from goroutines of their own
CloseRaceTests ==
    {Scenario(<<DoOrder(b)>> \o Typical(es),
              <<Call("Begin", 0, <<>>, FALSE), Call("Close", 0, <<>>, FALSE)>>,
              NumCallers, TRUE) :
        b \in BOOLEAN,
        es \in {<<Plain("Begin", 0), Plain("Close", 0)>>,
                <<Plain("Close", 0), Plain("Begin", 0)>>}}

Scenarios ==
    OrderedTests \cup UnorderedTests \cup GoroutineTests \cup RaceTests \cup MismatchTests
        \cup CloseTests \cup DelayTests \cup LateTests \cup StrayTests
        \cup ErrorTests \cup SwitchTests \cup ClosingTests \cup PingOffTests
        \cup ClaimTests \cup CloseRaceTests

\* New: smock := &sqlmock{dsn: dsn, drv: pool, ordered: true}
InitEngine(sc) ==
        /\ expected = <<>>
        /\ mu = <<>>
        /\ ordered = TRUE
        /\ monitorPings = sc.pings
        /\ drvMu = 0
        /\ script = sc.script
        /\ par = sc.par
        /\ released = FALSE
        /\ calls = sc.calls
        /\ todo = 1..Len(sc.calls)
        /\ g = [p \in Callers |-> IdleG]
        /\ res = [ci \in 1..Len(sc.calls) |-> NoResult]
        /\ ctxDone = [ci \in 1..Len(sc.calls) |-> FALSE]
        /\ vpc = "idle" /\ vidx = 0 /\ vn = 0
        /\ vres = [code |-> "none", idx |-> 0]
        /\ selCount = <<>>
        /\ order = <<>>
        /\ switched = FALSE
        /\ raced = FALSE
        /\ overlap = FALSE
        /\ vlate = FALSE
        /\ early = {}

\* a row set without rows that nothing has been done with
NoRows ==
    [rows |-> <<>>, pos |-> 0, nextErr |-> 0, closeErr |-> FALSE, raw |-> <<>>,
     rowsWereClosed |-> FALSE, setPos |-> 0, later |-> <<>>]

\* a *sql.Rows that has not been advanced, scanned or closed; query is the
\* number of the query it came from and n counts the rows its current result
\* set has delivered
FreshApp ==
    [closed |-> FALSE, got |-> "none", dest |-> <<>>, held |-> <<>>,
     drvClose |-> "none", closeRet |-> "none", eofs |-> 0, query |-> 1,
     n |-> 0]

\* a connection of the first driver without expectations, nothing called on it
NoConn ==
    [expectations |-> <<>>, last |-> [op |-> "none", idx |-> 0, out |-> "none"],
     closed |-> [idx |-> 0, out |-> "none"]]

\* no call of a goroutine-based wrapper has been made
NoWorker == <<>>

\* no *Rows is being built, no arguments are being compared, and the registry
\* is as the package leaves it
NoUnits ==
    /\ built = [cols |-> 0, rows |-> <<>>, converter |-> "default",
                values |-> <<>>, csv |-> <<>>, out |-> "none"]
    /\ cmp = [hasArgs |-> FALSE, args |-> <<>>, sqlOk |-> TRUE, actual |-> <<>>,
              fn |-> "none", out |-> "none"]
    /\ pool = [counter |-> 0, conns |-> {}, made |-> <<>>]
    /\ legacy = NoConn
    /\ worker = NoWorker

Init ==
    \E sc \in Scenarios :
        /\ InitEngine(sc)
        /\ rs = NoRows
        /\ mem = <<>>
        /\ app = FreshApp
        /\ NoUnits

\* ---------------------------------------------------------------- test goroutine
Busy == {p \in Callers : g[p].pc # "idle"}

\* the test goroutine is at step `op` of its script and free to take it: it is
\* not inside ExpectationsWereMet, nor inside a call it issued itself
AtStep(op) ==
    /\ script # <<>>
    /\ Head(script).op = op
    /\ vpc = "idle"
    /\ par = 1 => Busy = {}

\* an append that hands out fresh expectations: the queue starts over
DeclareFresh(e) ==
    Append([i \in DOMAIN expected |->
               [expected[i] EXCEPT !.triggered = FALSE, !.closed = FALSE]], e)

\* an append that puts the new expectation at the head of the queue
DeclareFront(e) == <<e>> \o expected

\* c.expected = append(c.expected, e)
Declare(e) == Append(expected, e)

\* a mock that watches pings whatever its option says
PingIgnoredNever == FALSE

\* `if !c.monitorPings` at the head of ExpectPing and of Ping
PingIgnored == ~monitorPings

\* ExpectBegin .. ExpectRollback, ExpectPing: append one expectation.
\* ExpectPing registers nothing while pings are not monitored.
Expect ==
    /\ AtStep("expect")
    /\ script' = Tail(script)
    /\ IF Head(script).e.kind = "Ping" /\ PingIgnored
       THEN UNCHANGED <<expected, mu, selCount>>
       ELSE /\ expected' = Declare(Head(script).e)
            /\ mu' = Append(mu, 0)
            /\ selCount' = Append(selCount, 0)
    /\ UNCHANGED <<ordered, drvMu, released, todo, g, res, ctxDone,
                   verif, ghost, early, harness, rowvars, units>>

\* MatchExpectationsInOrder(b): c.ordered = b
MatchExpectationsInOrder ==
    /\ AtStep("order")
    /\ script' = Tail(script)
    /\ ordered' = Head(script).b
    /\ switched' = (switched \/ (released /\ ordered # Head(script).b))
    /\ UNCHANGED <<expected, mu, drvMu, released, todo, g, res,
                   ctxDone, verif, selCount, order, raced, overlap, early, harness, rowvars, units>>

\* the test starts issuing its calls (`go func() { db.Exec(...) }()`)
Go ==
    /\ AtStep("go")
    /\ script' = Tail(script)
    /\ released' = TRUE
    /\ UNCHANGED <<expected, mu, ordered, drvMu, todo, g, res, ctxDone,
                   verif, selCount, ghost, early, harness, rowvars, units>>

\* wg.Wait(): every call of the test has returned
Join ==
    /\ AtStep("join")
    /\ todo = {}
    /\ Busy = {}
    /\ script' = Tail(script)
    /\ UNCHANGED <<expected, mu, ordered, drvMu, released, todo, g, res, ctxDone,
                   verif, selCount, ghost, early, harness, rowvars, units>>

\* ---------------------------------------------------------------- caller goroutines
\* the call returns: its result is recorded, the deferred c.drv.Unlock() of
\* Close runs, the goroutine is free again
Return(p, code, exp, waited) ==
    /\ res' = [res EXCEPT ![g[p].ci] =
                  [code |-> code, exp |-> exp, waited |-> waited, fp |-> g[p].fp,
                   at |-> IF g[p].exp # 0 THEN g[p].exp
                          ELSE IF g[p].idx <= g[p].n THEN g[p].idx ELSE 0]]
    /\ g' = [g EXCEPT ![p] = IdleG]
    /\ drvMu' = IF drvMu = p THEN 0 ELSE drvMu

\* the first expectation of the queue that is not triggered, 0 if none
FirstPending ==
    IF \A i \in DOMAIN expected : expected[i].triggered THEN 0
    ELSE CHOOSE i \in DOMAIN expected :
            /\ ~expected[i].triggered
            /\ \A j \in 1..(i - 1) : expected[j].triggered

\* a loop that looks at the expectation declared last only
rangeFromLast(n) == IF n = 0 THEN 1 ELSE n

\* `for _, next := range c.expected`: the walk begins at the head of the queue
rangeStart(n) == 1

\* A caller enters Begin/BeginTx, Commit, Rollback, Prepare/PrepareContext,
\* Query/QueryContext, Exec/ExecContext, Close or Ping.  `range c.expected`
\* fixes the slice it walks when the loop starts.  Close takes the driver lock
\* first; Ping returns nil at once while pings are not monitored.
Issue(p, ci) ==
    /\ g[p].pc = "idle"
    /\ released
    /\ Cardinality(Busy) < par
    /\ par = 1 => vpc = "idle"
    /\ ci \in todo
    /\ todo' = todo \ {ci}
    /\ order' = Append(order, ci)
    /\ raced' = (raced \/ \E k \in DOMAIN script : script[k].op = "expect")
    /\ overlap' = (overlap \/ Busy # {})
    /\ IF calls[ci].op = "Ping" /\ PingIgnored
       THEN /\ res' = [res EXCEPT ![ci] = [NoResult EXCEPT !.code = "ok"]]
            /\ UNCHANGED <<g, drvMu>>
       ELSE /\ calls[ci].op = "Close" => drvMu = 0
            /\ drvMu' = IF calls[ci].op = "Close" THEN p ELSE drvMu
            /\ g' = [g EXCEPT ![p] = [pc |-> "scan", ci |-> ci, n |-> Len(expected),
                                      idx |-> rangeStart(Len(expected)),
                                      fulfilled |-> 0, exp |-> 0,
                                      out |-> "none", remaining |-> 0,
                                      fp |-> FirstPending]]
            /\ UNCHANGED res
    /\ UNCHANGED <<expected, mu, ordered, script, released, ctxDone,
                   verif, selCount, switched, early, harness, rowvars, units>>

\* the loops never take the ordered branch
InOrderNever == FALSE

\* the loops always take the ordered branch
InOrderAlways == TRUE

\* a mode that falls back to unordered for good once it was changed during
\* the calls
InOrderUntilSwitched == ordered /\ ~switched

\* the `if c.ordered` of the loops
InOrder == ordered

\* the loop without next.Lock(): nothing keeps p from expectation i
CanLockNoMutex(p, i) == TRUE

\* next.Lock(): the mutex of expectation i can be taken by p
CanLock(p, i) == mu[i] = 0

\* One turn of the loop over c.expected: next.Lock(), then
\*   fulfilled          -> Unlock, count it, continue
\*   the wanted one     -> break with the lock held
\*   another one        -> Unlock; in ordered mode return the error naming it,
\*                         otherwise continue
\* In ordered mode prepare/query/exec break on the kind alone; in unordered
\* mode they also compare the SQL text and the arguments.
Inspect(p) ==
    LET i == g[p].idx
        c == calls[g[p].ci]
        e == expected[i]
        wanted == IF c.op \in KindOnly \/ InOrder
                  THEN e.kind = c.op
                  ELSE attemptMatch(e, c)
    IN  /\ g[p].pc = "scan"
        /\ i <= g[p].n
        /\ CanLock(p, i)
        /\ IF e.triggered
           THEN /\ g' = [g EXCEPT ![p].idx = i + 1, ![p].fulfilled = @ + 1]
                /\ UNCHANGED <<mu, res, drvMu>>
           ELSE IF wanted
           THEN /\ g' = [g EXCEPT ![p].pc = "found", ![p].exp = i]
                /\ mu' = [mu EXCEPT ![i] = p]
                /\ UNCHANGED <<res, drvMu>>
           ELSE IF InOrder
           THEN /\ Return(p, "wrongOrder", 0, 0)
                /\ UNCHANGED mu
           ELSE /\ g' = [g EXCEPT ![p].idx = i + 1]
                /\ UNCHANGED <<mu, res, drvMu>>
        /\ UNCHANGED <<expected, ordered, script, released, todo, ctxDone,
                       verif, selCount, ghost, early, harness, rowvars, units>>

\* a test that is satisfied as soon as one expectation was found fulfilled
AllFulfilledIfAny(p) == g[p].fulfilled > 0

\* `if fulfilled == len(c.expected)`
AllFulfilled(p) == g[p].fulfilled = Len(expected)

\* The loop ended with expected == nil: "was not expected", prefixed by "all
\* expectations were already fulfilled" when fulfilled == len(c.expected).
NotFound(p) ==
    /\ g[p].pc = "scan"
    /\ g[p].idx > g[p].n
    /\ Return(p, IF AllFulfilled(p) THEN "allFulfilled" ELSE "notExpected", 0, 0)
    /\ UNCHANGED <<expected, mu, ordered, script, released, todo, ctxDone,
                   verif, selCount, ghost, early, harness, rowvars, units>>

\* the final part of the inner functions with the test for a missing payload
\* placed before the test for a programmed error
VerdictPayloadFirst(e, c) ==
    IF c.op \in SqlKinds /\ ~QueryMatch(e.sql, c.sql) THEN "sqlMismatch"
    ELSE IF c.op \in {"Query", "Exec"} /\ ~argsMatches(e, c.args) THEN "argsMismatch"
    ELSE IF c.op \in {"Query", "Exec"} /\ ~e.ret THEN "noReturn"
    ELSE IF e.err THEN "progErr"
    ELSE "ok"

\* the final part of the inner functions without the test for a missing
\* payload: the expectation is returned with whatever it holds
VerdictNoPayloadTest(e, c) ==
    IF c.op \in SqlKinds /\ ~QueryMatch(e.sql, c.sql) THEN "sqlMismatch"
    ELSE IF c.op \in {"Query", "Exec"} /\ ~argsMatches(e, c.args) THEN "argsMismatch"
    ELSE IF e.err THEN "progErr"
    ELSE "ok"

\* what the inner begin/prepare/query/exec/ping returns for the expectation it
\* holds: the error of a failed final comparison (nothing is triggered), or the
\* expectation marked triggered together with its programmed outcome
Verdict(e, c) ==
    IF c.op \in SqlKinds /\ ~QueryMatch(e.sql, c.sql) THEN "sqlMismatch"
    ELSE IF c.op \in {"Query", "Exec"} /\ ~argsMatches(e, c.args) THEN "argsMismatch"
    ELSE IF e.err THEN "progErr"
    ELSE IF c.op \in {"Query", "Exec"} /\ ~e.ret THEN "noReturn"
    ELSE "ok"

\* expected.triggered = true moved before the final comparison
TriggersBeforeCompare(v) == TRUE

\* expected.triggered = true only on the path that returns a payload
TriggersOnSuccess(v) == v \in {"ok", "noReturn"}

\* the verdicts that set expected.triggered = true
Triggers(v) == v \in {"ok", "progErr", "noReturn"}

\* the verdicts for which the inner function returns the expectation (ex != nil)
ReturnsEx(v) == v \in {"ok", "progErr"}

\* an inner function that returns without expected.Unlock()
UnlockedNever(p, i) == mu

\* the lock of the selected expectation after expected.Unlock()
Unlocked(p, i) == [mu EXCEPT ![i] = 0]

\* After the loop, with the selected expectation still locked: the final
\* comparison, expected.triggered = true, Unlock.  Commit, Rollback and Close
\* return at once; the others return at once when ex == nil and otherwise go on
\* to wait out ex.delay.
Select(p) ==
    LET i == g[p].exp
        c == calls[g[p].ci]
        e == expected[i]
        v == Verdict(e, c)
    IN  /\ g[p].pc = "found"
        /\ expected' = IF Triggers(v) THEN [expected EXCEPT ![i].triggered = TRUE]
                       ELSE expected
        /\ selCount' = IF Triggers(v) THEN [selCount EXCEPT ![i] = @ + 1]
                       ELSE selCount
        /\ mu' = Unlocked(p, i)
        /\ IF c.op \in Delayed /\ ReturnsEx(v)
           THEN /\ g' = [g EXCEPT ![p].pc = "wait", ![p].out = v,
                                  ![p].remaining = e.delay]
                /\ UNCHANGED <<res, drvMu>>
           ELSE Return(p, v, IF Triggers(v) THEN i ELSE 0, 0)
        /\ UNCHANGED <<ordered, script, released, todo, ctxDone,
                       verif, ghost, early, harness, rowvars, units>>

\* ---------------------------------------------------------------- delay and cancellation
Waiting(p) == g[p].pc = "wait"

\* the delay of p's timer that has already gone by
Waited(p) == expected[g[p].exp].delay - g[p].remaining

\* a timer that is always ready, as time.After(0) would be
TimerAlwaysFired(p) == TRUE

\* a wrapper that returns a programmed error before it starts the timer
TimerFiredOrErr(p) == g[p].remaining = 0 \/ g[p].out = "progErr"

\* the timer of time.After(ex.delay) / time.Sleep(ex.delay) has fired
TimerFired(p) == g[p].remaining = 0

\* case <-time.After(ex.delay), or the end of time.Sleep(ex.delay): the
\* programmed outcome is returned
TimerReturn(p) ==
    /\ Waiting(p)
    /\ TimerFired(p)
    /\ Return(p, g[p].out, g[p].exp, Waited(p))
    /\ UNCHANGED <<expected, mu, ordered, script, released, todo, ctxDone,
                   verif, selCount, ghost, early, harness, rowvars, units>>

\* case <-ctx.Done(): ErrCancelled
CtxReturn(p) ==
    /\ Waiting(p)
    /\ calls[g[p].ci].ctx
    /\ ctxDone[g[p].ci]
    /\ Return(p, "cancelled", g[p].exp, Waited(p))
    /\ UNCHANGED <<expected, mu, ordered, script, released, todo, ctxDone,
                   verif, selCount, ghost, early, harness, rowvars, units>>

\* One unit of time goes by for every running timer.  A goroutine parked in
\* select is woken by the first channel that becomes ready, so time does not
\* advance past a select whose ctx.Done() is already closed and whose timer
\* has not fired: that select has taken the ctx.Done() case.
Tick ==
    /\ \E p \in Callers : Waiting(p) /\ ~TimerFired(p)
    /\ \A p \in Callers :
          Waiting(p) /\ ~TimerFired(p) => ~(calls[g[p].ci].ctx /\ ctxDone[g[p].ci])
    /\ g' = [p \in Callers |->
                IF Waiting(p) /\ ~TimerFired(p)
                THEN [g[p] EXCEPT !.remaining = @ - 1] ELSE g[p]]
    /\ UNCHANGED <<expected, mu, ordered, drvMu, script, released, todo,
                   res, ctxDone, verif, selCount, ghost, early, harness, rowvars, units>>

\* the call ci has reached the end of its delay
Elapsed(ci) == \E p \in Callers : g[p].ci = ci /\ Waiting(p) /\ TimerFired(p)

\* The context of a call that has not returned yet is cancelled (cancel(), or
\* its deadline passes); this may happen before the call is even issued.
Cancel(ci) ==
    /\ calls[ci].ctx
    /\ ~ctxDone[ci]
    /\ res[ci].code = "pending"
    /\ ctxDone' = [ctxDone EXCEPT ![ci] = TRUE]
    /\ early' = IF Elapsed(ci) THEN early ELSE early \cup {ci}
    /\ UNCHANGED <<expected, mu, ordered, drvMu, script, released, todo,
                   g, res, verif, selCount, ghost, harness, rowvars, units>>

\* ---------------------------------------------------------------- closing what a call returned
\* the rows (Query) or the statement (Prepare) of expectation i were handed to
\* the application
Handed(i) == \E ci \in DOMAIN res : res[ci].code = "ok" /\ res[ci].exp = i

\* rowSets.Close: rs.ex.rowsWereClosed = true
RowsClose(i) ==
    /\ expected[i].kind = "Query"
    /\ Handed(i)
    /\ ~expected[i].closed
    /\ expected' = [expected EXCEPT ![i].closed = TRUE]
    /\ UNCHANGED <<mu, ordered, drvMu, script, released, todo, g, res,
                   ctxDone, verif, selCount, ghost, early, harness, rowvars, units>>

\* statement.Close: stmt.ex.wasClosed = true
StmtClose(i) ==
    /\ expected[i].kind = "Prepare"
    /\ Handed(i)
    /\ ~expected[i].closed
    /\ expected' = [expected EXCEPT ![i].closed = TRUE]
    /\ UNCHANGED <<mu, ordered, drvMu, script, released, todo, g, res,
                   ctxDone, verif, selCount, ghost, early, harness, rowvars, units>>

\* ---------------------------------------------------------------- ExpectationsWereMet
\* the test goroutine enters ExpectationsWereMet
VerifyStart ==
    /\ AtStep("verify")
    /\ script' = Tail(script)
    /\ vpc' = "walk"
    /\ vidx' = 1
    /\ vn' = Len(expected)
    /\ vres' = [code |-> "none", idx |-> 0]
    /\ vlate' = (todo = {} /\ Busy = {})
    /\ UNCHANGED <<expected, mu, ordered, drvMu, released, todo,
                   g, res, ctxDone, selCount, ghost, early, harness, rowvars, units>>

\* a loop body that looks at the close flags only
FindingNoFulfilled(e) ==
    IF e.kind \in {"Prepare", "Query"} /\ e.mustClose /\ ~e.closed THEN "notClosed"
    ELSE "met"

\* a loop body that knows of prepared statements only, not of rows
FindingNoRows(e) ==
    IF ~e.triggered THEN "unmet"
    ELSE IF e.kind = "Prepare" /\ e.mustClose /\ ~e.closed THEN "notClosed"
    ELSE "met"

\* what the loop body of ExpectationsWereMet finds for one expectation
Finding(e) ==
    IF ~e.triggered THEN "unmet"
    ELSE IF e.kind \in {"Prepare", "Query"} /\ e.mustClose /\ ~e.closed THEN "notClosed"
    ELSE "met"

\* One turn of its loop: e.Lock(); fulfilled := e.fulfilled(); e.Unlock(); the
\* first expectation that is not fulfilled, or whose statement or rows had to
\* be closed and were not, ends the walk with its error.  Past the end: nil.
VerifyStep ==
    /\ vpc = "walk"
    /\ IF vidx > vn
       THEN /\ vres' = [code |-> "ok", idx |-> 0]
            /\ vpc' = "idle"
            /\ UNCHANGED vidx
       ELSE /\ mu[vidx] = 0
            /\ IF Finding(expected[vidx]) = "met"
               THEN /\ vidx' = vidx + 1
                    /\ UNCHANGED <<vres, vpc>>
               ELSE /\ vres' = [code |-> Finding(expected[vidx]), idx |-> vidx]
                    /\ vpc' = "idle"
                    /\ UNCHANGED vidx
    /\ UNCHANGED <<expected, mu, ordered, drvMu, script, released, todo,
                   g, res, ctxDone, vn, vlate, selCount, ghost, early, harness, rowvars, units>>

\* ---------------------------------------------------------------- specification
Next ==
    \/ Expect
    \/ MatchExpectationsInOrder
    \/ Go
    \/ Join
    \/ \E p \in Callers, ci \in DOMAIN calls : Issue(p, ci)
    \/ \E p \in Callers : Inspect(p)
    \/ \E p \in Callers : NotFound(p)
    \/ \E p \in Callers : Select(p)
    \/ \E p \in Callers : TimerReturn(p)
    \/ \E p \in Callers : CtxReturn(p)
    \/ Tick
    \/ \E ci \in DOMAIN calls : Cancel(ci)
    \/ \E i \in DOMAIN expected : RowsClose(i)
    \/ \E i \in DOMAIN expected : StmtClose(i)
    \/ VerifyStart
    \/ VerifyStep

Spec == Init /\ [][Next]_vars

\* ---------------------------------------------------------------- rows
Bytes == 1..MaxByte

\* the []byte values of at most MaxLen bytes
ByteStrings == UNION {[1..n -> Bytes] : n \in 0..MaxLen}

\* const invalidate: the pattern written over released slices, here two bytes
invalidate == <<1, 2>>

\* a driver.Value of a row: a []byte or an int64; what Next puts into dest for
\* a non-empty []byte is slice number h of mem instead
BytesCell(v) == [typ |-> "bytes", v |-> v, h |-> 0]
IntCell(v) == [typ |-> "int", v |-> v, h |-> 0]
RawCell(h) == [typ |-> "raw", v |-> <<>>, h |-> h]

\* rawBytes(col): ok iff col is a []byte of positive length
rawBytes(col) == col.typ = "bytes" /\ Len(col.v) > 0

\* copy(r, bytes.Repeat(b, len(r)/len(b)+1)): r filled with the pattern,
\* repeated and cut to the length of r
Overwritten(r) ==
    [k \in 1..Len(r) |-> invalidate[((k - 1) % Len(invalidate)) + 1]]

Range(f) == {f[k] : k \in DOMAIN f}

\* an invalidateRaw that forgets the slices without writing over them
invalidateRawForgets(m, raw) == m

\* invalidateRaw: every slice of rs.raw is written over; the caller then has
\* rs.raw = nil
invalidateRaw(m, raw) ==
    [h \in DOMAIN m |-> IF h \in Range(raw) THEN Overwritten(m[h]) ELSE m[h]]

\* a Close that keeps the close error to itself once the cursor is past the
\* last row
closeErrBeforeEndOnly(r) ==
    IF r.closeErr /\ r.pos <= Len(r.rows) THEN "err" ELSE "nil"

\* return rs.sets[rs.pos].closeErr
closeReturn(r) == IF r.closeErr THEN "err" ELSE "nil"

\* rowSets.Close on row set r: the raw list is dropped, the expectation is told
rowSetsClose(r) == [r EXCEPT !.raw = <<>>, !.rowsWereClosed = TRUE]

\* the number that the int64 column holds in row k of result set s
RowNo(s, k) == (s - 1) * (MaxRows + 1) + k

\* a further *Rows of WillReturnRows(first, further...), as result set s: the
\* second with up to MaxRows rows, a RowError on its last row or none and
\* possibly a CloseError, those after it with one row and no error
FurtherRows(s) ==
    UNION {{[rows |-> [k \in 1..n |->
                         <<BytesCell(<<MaxByte>>), IntCell(RowNo(s, k))>>],
             nextErr |-> ne, closeErr |-> ce] :
                ne \in IF s = 2 THEN {0, n} ELSE {0},
                ce \in IF s = 2 THEN BOOLEAN ELSE {FALSE}} :
           n \in IF s = 2 THEN 0..MaxRows ELSE {1}}

\* the result sets after the first one, at most MaxSets - 1 of them
LaterSets ==
    UNION {{f \in [1..m -> UNION {FurtherRows(s) : s \in 2..MaxSets}] :
               \A i \in 1..m : f[i] \in FurtherRows(i + 1)} :
           m \in 0..(MaxSets - 1)}

\* NewRows(...).AddRow(...)...: up to MaxRows rows of a []byte and an int64
\* column, possibly a RowError on one row and a CloseError.  rows, pos, nextErr
\* and closeErr are those of rs.sets[rs.pos], setPos is rs.pos and later holds
\* rs.sets[rs.pos+1:]
RowsOf(vs, lts) ==
    {[rows |-> [k \in 1..n |->
                   <<BytesCell(IF k = 1 THEN v ELSE <<MaxByte>>), IntCell(k)>>],
      pos |-> 0, nextErr |-> ne, closeErr |-> ce, raw |-> <<>>,
      rowsWereClosed |-> FALSE, setPos |-> 0, later |-> lt] :
        n \in 0..MaxRows, v \in vs, ne \in 0..MaxRows, ce \in BOOLEAN,
        lt \in lts}

\* the row sets of the tests: one result set with any []byte in its first
\* row, or several result sets
RowTests == RowsOf(ByteStrings, {<<>>}) \cup RowsOf({<<MaxByte>>}, LaterSets)

\* db.Query has returned the *sql.Rows over one of these row sets
InitRows ==
    /\ InitEngine(Scenario(<<>>, <<>>, 1, TRUE))
    /\ rs \in RowTests
    /\ mem = <<>>
    /\ app = FreshApp
    /\ NoUnits

\* a row set that never reports a further result set
HasNextResultSetNever(r) == FALSE

\* rs.pos+1 < len(rs.sets)
HasNextResultSet(r) == Len(r.later) > 0

\* a RowError that comes up one advance after its row
nextErrOneLate(r, pos) == r.nextErr = pos - 1

\* r.nextErr[r.pos-1] is set: the RowError was put on the row the cursor is on
nextErr(r, pos) == r.nextErr = pos

\* rs.Next() of the test: database/sql calls rowSets.Next(dest) unless the rows
\* are closed.  rowSets.Next moves the cursor, runs invalidateRaw, returns
\* io.EOF past the last row, and otherwise fills dest, giving every non-empty
\* []byte a fresh slice that it records in rs.raw, and returns the RowError of
\* the row.  On an error, and on io.EOF unless HasNextResultSet, database/sql
\* closes the driver rows itself and drops what Close returns.
SqlNext ==
    /\ ~app.closed
    /\ rs.pos < Len(rs.rows) + 1 + MaxOver
    /\ LET pos == rs.pos + 1
           m1 == invalidateRaw(mem, rs.raw)
           r1 == [rs EXCEPT !.pos = pos, !.raw = <<>>]
       IN  IF pos > Len(rs.rows) /\ HasNextResultSet(rs)
           THEN /\ rs' = r1
                /\ mem' = m1
                /\ app' = [app EXCEPT !.got = "eof", !.eofs = @ + 1]
           ELSE IF pos > Len(rs.rows)
           THEN /\ rs' = rowSetsClose(r1)
                /\ mem' = invalidateRaw(m1, r1.raw)
                /\ app' = [app EXCEPT !.closed = TRUE, !.got = "eof",
                                      !.eofs = @ + 1,
                                      !.drvClose = closeReturn(r1)]
           ELSE LET row == rs.rows[pos]
                    news == SelectSeq(row, rawBytes)
                    m2 == m1 \o [k \in 1..Len(news) |-> news[k].v]
                    r2 == [r1 EXCEPT !.raw = [k \in 1..Len(news) |-> Len(m1) + k]]
                    dst == [i \in 1..Len(row) |->
                               IF rawBytes(row[i])
                               THEN RawCell(Len(m1)
                                      + Cardinality({j \in 1..i : rawBytes(row[j])}))
                               ELSE row[i]]
                IN  IF nextErr(rs, pos)
                    THEN /\ rs' = rowSetsClose(r2)
                         /\ mem' = invalidateRaw(m2, r2.raw)
                         /\ app' = [app EXCEPT !.closed = TRUE, !.got = "err",
                                               !.dest = dst, !.n = @ + 1,
                                               !.drvClose = closeReturn(r2)]
                    ELSE /\ rs' = r2
                         /\ mem' = m2
                         /\ app' = [app EXCEPT !.got = "row", !.dest = dst,
                                               !.n = @ + 1]
    /\ UNCHANGED <<engine, units>>

\* rs.Scan(&x...) of the test on the current row, the results kept: into
\* sql.RawBytes a []byte is handed over as it is, sharing the slice of the
\* driver; into []byte it is copied; any other value is copied
Keep(mode) ==
    /\ ~app.closed
    /\ app.got = "row"
    /\ \A k \in DOMAIN app.held : app.held[k].row # RowNo(rs.setPos + 1, rs.pos)
    /\ app' = [app EXCEPT !.held = @ \o
                 [i \in DOMAIN app.dest |->
                     LET d == app.dest[i]
                     IN  IF d.typ = "raw" /\ mode = "RawBytes"
                         THEN [h |-> d.h, val |-> <<>>, was |-> mem[d.h], row |-> RowNo(rs.setPos + 1, rs.pos)]
                         ELSE IF d.typ = "raw"
                         THEN [h |-> 0, val |-> mem[d.h], was |-> mem[d.h], row |-> RowNo(rs.setPos + 1, rs.pos)]
                         ELSE [h |-> 0, val |-> d.v, was |-> d.v, row |-> RowNo(rs.setPos + 1, rs.pos)]]]
    /\ UNCHANGED <<rs, mem, engine, units>>

\* rs.Close() of the test: nil when database/sql has closed the rows already,
\* otherwise what rowSets.Close returns
SqlClose ==
    /\ app.closeRet = "none"
    /\ IF app.closed
       THEN /\ app' = [app EXCEPT !.closeRet = "nil"]
            /\ UNCHANGED <<rs, mem>>
       ELSE /\ rs' = rowSetsClose(rs)
            /\ mem' = invalidateRaw(mem, rs.raw)
            /\ app' = [app EXCEPT !.closed = TRUE, !.drvClose = closeReturn(rs),
                                  !.closeRet = closeReturn(rs)]
    /\ UNCHANGED <<engine, units>>

\* rs.NextResultSet() of the test: database/sql forgets the row it holds and
\* calls rowSets.NextResultSet, which moves rs.pos on to the next *Rows when
\* there is one and returns io.EOF otherwise; on io.EOF database/sql closes the
\* rows
SqlNextResultSet ==
    /\ ~app.closed
    /\ IF HasNextResultSet(rs)
       THEN /\ rs' = [rs EXCEPT !.rows = Head(rs.later).rows, !.pos = 0,
                                !.nextErr = Head(rs.later).nextErr,
                                !.closeErr = Head(rs.later).closeErr,
                                !.setPos = @ + 1, !.later = Tail(@)]
            /\ mem' = mem
            /\ app' = [app EXCEPT !.got = "set", !.dest = <<>>, !.n = 0]
       ELSE /\ rs' = rowSetsClose(rs)
            /\ mem' = invalidateRaw(mem, rs.raw)
            /\ app' = [app EXCEPT !.closed = TRUE, !.got = "noset", !.dest = <<>>,
                                  !.drvClose = closeReturn(rs)]
    /\ UNCHANGED <<engine, units>>

NextRows ==
    \/ SqlNext
    \/ SqlNextResultSet
    \/ \E mode \in {"RawBytes", "Bytes"} : Keep(mode)
    \/ SqlClose

SpecRows == InitRows /\ [][NextRows]_vars

\* a second query is answered from the same *Rows: the test passed them to
\* WillReturnRows of two expectations, has closed the rows of the first query
\* without asking for a further result set, and now makes the second query.
\* WillReturnRows of the second expectation put the same pointers into a
\* rowSets of its own, so pos, raw and the closed flag of the expectation are
\* new, while the cursor of each *Rows is where the first query left it.  The
\* test still holds what it kept.
Requery ==
    /\ app.query = 1
    /\ app.closed
    /\ rs.setPos = 0
    /\ rs' = [rs EXCEPT !.raw = <<>>, !.rowsWereClosed = FALSE]
    /\ app' = [FreshApp EXCEPT !.query = 2, !.held = app.held]
    /\ UNCHANGED <<mem, engine, units>>

NextShared ==
    \/ NextRows
    \/ Requery

SpecShared == InitRows /\ [][NextShared]_vars

\* ------------------------------------------------------- building a *Rows
\* what a test hands to AddRow: a Go int, a string, or a value of a struct type
\* that is no driver.Value
Given(typ, v) == [typ |-> typ, v |-> v]
Givens == {Given(typ, v) : typ \in {"int", "string", "struct"}, v \in Bytes}

\* r.converter.ConvertValue(v).  driver.DefaultParameterConverter turns an int
\* into an int64, keeps a string and returns an error for a struct; the
\* converter of the option test returns an error for every value
ConvertValue(converter, v) ==
    IF converter = "disabled" \/ v.typ = "struct"
    THEN [ok |-> FALSE, v |-> Given("nil", 0)]
    ELSE [ok |-> TRUE,
          v |-> Given(IF v.typ = "int" THEN "int64" ELSE v.typ, v.v)]

\* an AddRow that takes any list no longer than the columns
arityAtMost(r, values) == Len(values) <= r.cols

\* len(values) == len(r.cols)
arityOk(r, values) == Len(values) = r.cols

\* NewRows(cols) with some rows already added, and the values of the AddRow
\* call the test is about to make
AddTests ==
    {[cols |-> n, rows |-> [k \in 1..m |-> [i \in 1..n |-> Given("int64", 1)]],
      converter |-> c, values |-> vs, csv |-> <<>>, out |-> "none"] :
        n \in 0..MaxCols, m \in 0..(MaxRows - 1), c \in {"default", "disabled"},
        vs \in UNION {[1..l -> Givens] : l \in 0..(MaxCols + 1)}}

InitAdd ==
    /\ InitEngine(Scenario(<<>>, <<>>, 1, TRUE))
    /\ rs = NoRows
    /\ mem = <<>>
    /\ app = FreshApp
    /\ built \in AddTests
    /\ cmp = [hasArgs |-> FALSE, args |-> <<>>, sqlOk |-> TRUE, actual |-> <<>>,
              fn |-> "none", out |-> "none"]
    /\ pool = [counter |-> 0, conns |-> {}, made |-> <<>>]
    /\ legacy = NoConn
    /\ worker = NoWorker

\* Rows.AddRow(values...): panics when the number of values is not the number
\* of columns; converts the values one by one into a new row and panics at the
\* first that the converter refuses; appends the row
AddRow ==
    /\ built.out = "none"
    /\ LET values == built.values
           row == [i \in 1..built.cols |->
                      IF i <= Len(values)
                      THEN ConvertValue(built.converter, values[i])
                      ELSE [ok |-> TRUE, v |-> Given("nil", 0)]]
       IN  IF ~arityOk(built, values)
           THEN built' = [built EXCEPT !.out = "panic"]
           ELSE IF \E i \in 1..built.cols : ~row[i].ok
           THEN built' = [built EXCEPT !.out = "panic"]
           ELSE built' = [built EXCEPT
                             !.rows = Append(@, [i \in 1..built.cols |-> row[i].v]),
                             !.out = "ok"]
    /\ UNCHANGED <<engine, rowvars, cmp, pool, legacy, worker>>

\* the fields of a CSV text: some text, or the word NULL
CSVFields == {Given("text", MaxByte), Given("null", 0)}

\* a line of a CSV text as encoding/csv reads it: a record of one to
\* MaxCols + 1 fields, the first of them NULL or not, or (no fields) a line
\* the reader cannot parse
CSVRecords ==
    {[i \in 1..l |-> IF i = 1 THEN f ELSE Given("text", MaxByte)] :
        l \in 0..(MaxCols + 1), f \in CSVFields}

\* a CSV text of up to MaxRows lines
CSVTexts == UNION {[1..m -> CSVRecords] : m \in 0..MaxRows}

\* CSVColumnParser: nil for NULL in any case, the bytes of the field otherwise
CSVColumnParser(f) ==
    IF f.typ = "null" THEN Given("nil", 0) ELSE Given("bytes", f.v)

\* the records csvReader.Read() returns before its first error: a line it
\* cannot parse, or a record whose number of fields is not that of the first
\* record (FieldsPerRecord is 0), or the end of the text
ReadAll(s) ==
    LET bad == {k \in 1..Len(s) : Len(s[k]) = 0 \/ Len(s[k]) # Len(s[1])}
    IN  IF bad = {} THEN s
        ELSE SubSeq(s, 1, (CHOOSE k \in bad : \A j \in bad : k <= j) - 1)

\* a row made as long as the record that was read
rowAsRecord(r, rec) == Len(rec)

\* row := make([]driver.Value, len(r.cols))
rowWidth(r, rec) == r.cols

\* Rows.FromCSVString(s): for every record read, a row of len(r.cols) cells is
\* made, filled field by field and appended; `row[i] = ...` panics with an
\* index out of range when a record has more fields than there are columns;
\* the loop ends without a word at the first error of the reader
FromCSVString(s) ==
    /\ built.out = "none"
    /\ built.values = <<>>
    /\ LET recs == ReadAll(s)
       IN  IF recs # <<>> /\ Len(recs[1]) > built.cols
           THEN built' = [built EXCEPT !.csv = s, !.out = "panic"]
           ELSE built' = [built EXCEPT
                             !.csv = s,
                             !.rows = @ \o
                                 [k \in 1..Len(recs) |->
                                     [i \in 1..rowWidth(built, recs[k]) |->
                                         IF i <= Len(recs[k])
                                         THEN CSVColumnParser(recs[k][i])
                                         ELSE Given("nil", 0)]],
                             !.out = "csv"]
    /\ UNCHANGED <<engine, rowvars, cmp, pool, legacy, worker>>

NextAdd ==
    \/ AddRow
    \/ \E s \in CSVTexts : FromCSVString(s)

SpecAdd == InitAdd /\ [][NextAdd]_vars

\* --------------------------------------- comparing arguments (driver.Value)
\* a declared or an actual argument by its reflect.Kind and its contents; a
\* struct stands for time.Time
Val(kind, v) == [kind |-> kind, v |-> v]
Signed == {"int32", "int64"}
Unsigned == {"uint64"}
Floats == {"float64"}
\* the string "<int64 Value>", which reflect.Value.String() gives for an int64
Int64Text == Val("string", 0)

ActualValues ==
    {Val(kind, v) :
        kind \in Signed \cup Unsigned \cup Floats \cup {"string", "bool", "struct"},
        v \in Bytes} \cup {Int64Text}

\* a declared argument may also be an Argument: AnyArg(), or a matcher of the
\* test whose Match panics
DeclaredValues == ActualValues \cup {Val("AnyArg", 0), Val("panics", 0)}

\* the values that fill the places after the first
Common == {Val("int64", 1), Val("string", 1)}

\* the lists of at most MaxArgs values, the first from first
ArgLists(first) ==
    UNION {{l \in [1..n -> first \cup Common] :
               \A k \in 2..n : l[k] \in Common} : n \in 0..MaxArgs}

\* reflect.Value.String(): the string itself for a string, "<T Value>" for a
\* value of any other type
String(x) ==
    IF x.kind = "string" /\ x # Int64Text
    THEN [text |-> x.v, value |-> ""]
    ELSE IF x.kind = "string" THEN [text |-> 0, value |-> "int64"]
    ELSE [text |-> 0, value |-> x.kind]

\* a comparison of the other kinds that looks at the contents as well
sameValue(a, v) == a = v

\* vi.Kind() == ai.Kind()
sameKind(a, v) == a.kind = v.kind

\* one turn of the loop of argsMatches on the declared a and the actual v:
\* "eq" to go on, "ne" for return false; reflect.Value.Int, Float and Uint
\* panic with a *reflect.ValueError on a value of another kind
compare(a, v) ==
    IF a.kind = "AnyArg" THEN "eq"
    ELSE IF a.kind = "panics" THEN "panic"
    ELSE IF v.kind \in Signed
    THEN IF a.kind \notin Signed THEN "ValueError"
         ELSE IF v.v = a.v THEN "eq" ELSE "ne"
    ELSE IF v.kind \in Floats
    THEN IF a.kind \notin Floats THEN "ValueError"
         ELSE IF v.v = a.v THEN "eq" ELSE "ne"
    ELSE IF v.kind \in Unsigned
    THEN IF a.kind \notin Unsigned THEN "ValueError"
         ELSE IF v.v = a.v THEN "eq" ELSE "ne"
    ELSE IF v.kind = "string"
    THEN IF String(v) = String(a) THEN "eq" ELSE "ne"
    ELSE IF sameKind(a, v) THEN "eq" ELSE "ne"

\* a test for no declared list that takes an empty actual list only
nilArgsAndNone(hasArgs, args) == ~hasArgs /\ Len(args) = 0

\* nil == e.args
nilArgs(hasArgs, args) == ~hasArgs

\* queryBasedExpectation.argsMatches(args) on values with kinds: "true",
\* "false", or the panic that the first turn which does not go on ends in
argsMatchesKinds(hasArgs, declared, args) ==
    IF nilArgs(hasArgs, args) THEN "true"
    ELSE IF Len(args) # Len(declared) THEN "false"
    ELSE LET stops == {k \in 1..Len(args) : compare(declared[k], args[k]) # "eq"}
         IN  IF stops = {} THEN "true"
             ELSE LET k == CHOOSE i \in stops : \A j \in stops : i <= j
                      r == compare(declared[k], args[k])
                  IN  IF r = "ne" THEN "false" ELSE r

\* queryBasedExpectation.attemptMatch(sql, args): false when the text does not
\* match; otherwise what argsMatches gives.  Its `defer recover()` runs recover
\* as the deferred function itself, where recover returns nil and stops no
\* panic, so a panic of argsMatches leaves attemptMatch as it is
attemptMatchKinds(sqlOk, hasArgs, declared, args) ==
    IF ~sqlOk THEN "false" ELSE argsMatchesKinds(hasArgs, declared, args)

\* the deferred handler of Exec and Query: a *reflect.ValueError becomes the
\* error of the call, any other panic is raised again
argMatcherErrorHandler(r) == IF r = "ValueError" THEN "err" ELSE "panic"

\* the part of Exec and Query after the selection, under the handler
afterSelection(sqlOk, hasArgs, declared, args) ==
    IF ~sqlOk THEN "err"
    ELSE LET r == argsMatchesKinds(hasArgs, declared, args)
         IN  IF r = "true" THEN "ok"
             ELSE IF r = "false" THEN "err"
             ELSE argMatcherErrorHandler(r)

\* one ExpectExec, with or without WithArgs, and the Exec the test makes
ArgTests ==
    {[hasArgs |-> h, args |-> d, sqlOk |-> q, actual |-> a, fn |-> "none",
      out |-> "none"] :
        h \in BOOLEAN, d \in ArgLists(DeclaredValues), q \in BOOLEAN,
        a \in ArgLists(ActualValues)}

InitArgs ==
    /\ InitEngine(Scenario(<<>>, <<>>, 1, TRUE))
    /\ rs = NoRows
    /\ mem = <<>>
    /\ app = FreshApp
    /\ built = [cols |-> 0, rows |-> <<>>, converter |-> "default",
                values |-> <<>>, csv |-> <<>>, out |-> "none"]
    /\ cmp \in {t \in ArgTests : ~t.hasArgs => t.args = <<>>}
    /\ pool = [counter |-> 0, conns |-> {}, made |-> <<>>]
    /\ legacy = NoConn
    /\ worker = NoWorker

\* e.argsMatches(against) called by a test
ArgsMatches ==
    /\ cmp.fn = "none"
    /\ cmp' = [cmp EXCEPT !.fn = "argsMatches",
                          !.out = argsMatchesKinds(cmp.hasArgs, cmp.args, cmp.actual)]
    /\ UNCHANGED <<engine, rowvars, built, pool, legacy, worker>>

\* Exec with MatchExpectationsInOrder set and the ExpectedExec first in line:
\* it is selected at once and compared under the handler
ExecInOrder ==
    /\ cmp.fn = "none"
    /\ cmp' = [cmp EXCEPT !.fn = "ExecInOrder",
                          !.out = afterSelection(cmp.sqlOk, cmp.hasArgs, cmp.args,
                                                 cmp.actual)]
    /\ UNCHANGED <<engine, rowvars, built, pool, legacy, worker>>

\* Exec without MatchExpectationsInOrder: attemptMatch is called inside the
\* loop, before the handler is deferred; when it returns false no expectation
\* is left and the call fails; when it returns true the call goes on as above
ExecAnyOrder ==
    /\ cmp.fn = "none"
    /\ LET r == attemptMatchKinds(cmp.sqlOk, cmp.hasArgs, cmp.args, cmp.actual)
       IN  cmp' = [cmp EXCEPT !.fn = "ExecAnyOrder",
                              !.out = IF r = "true"
                                      THEN afterSelection(cmp.sqlOk, cmp.hasArgs,
                                                          cmp.args, cmp.actual)
                                      ELSE IF r = "false" THEN "err"
                                      ELSE "panic"]
    /\ UNCHANGED <<engine, rowvars, built, pool, legacy, worker>>

NextArgs ==
    \/ ArgsMatches
    \/ ExecInOrder
    \/ ExecAnyOrder

SpecArgs == InitArgs /\ [][NextArgs]_vars

\* ------------------------------------------- the first driver's connection
\* conn of connection.go: one global connection whose expectations are met
\* strictly in declaration order.  An expectation is its kind, triggered, the
\* WithArgs list (hasArgs FALSE when WithArgs was not called), err (an error
\* was set with WillReturnError) and set (a result or rows were set); how
\* records what the last call that selected it came to
Expecting(kind, hasArgs, args, err, set) ==
    [kind |-> kind, triggered |-> FALSE, hasArgs |-> hasArgs, args |-> args,
     err |-> err, set |-> set, how |-> "none"]

\* the declared and the actual argument lists of the calls on the connection
ConnDeclared == ArgLists({Val("int64", 1), Val("AnyArg", 0), Val("panics", 0)})
ConnActual == ArgLists({Val("int64", 1), Val("int64", MaxByte), Val("float64", 1)})

\* ExpectExec(...) and ExpectQuery(...) with every choice of WithArgs,
\* WillReturnError and WillReturnResult or WillReturnRows
ConnSubjects ==
    {Expecting(kind, TRUE, d, err, set) :
        kind \in {"Exec", "Query"}, d \in ConnDeclared, err \in BOOLEAN,
        set \in BOOLEAN}
    \cup {Expecting(kind, FALSE, <<>>, err, set) :
        kind \in {"Exec", "Query"}, err \in BOOLEAN, set \in BOOLEAN}

\* the expectations of a test: one of the subjects, after ExpectBegin() or
\* not, before a plain ExpectQuery or not
ConnTests ==
    {pre \o <<e>> \o post :
        pre \in {<<>>, <<Expecting("Begin", FALSE, <<>>, FALSE, TRUE)>>},
        e \in ConnSubjects,
        post \in {<<>>, <<Expecting("Query", FALSE, <<>>, FALSE, TRUE)>>}}

InitConn ==
    /\ InitEngine(Scenario(<<>>, <<>>, 1, TRUE))
    /\ rs = NoRows
    /\ mem = <<>>
    /\ app = FreshApp
    /\ built = [cols |-> 0, rows |-> <<>>, converter |-> "default",
                values |-> <<>>, csv |-> <<>>, out |-> "none"]
    /\ cmp = [hasArgs |-> FALSE, args |-> <<>>, sqlOk |-> TRUE, actual |-> <<>>,
              fn |-> "none", out |-> "none"]
    /\ pool = [counter |-> 0, conns |-> {}, made |-> <<>>]
    /\ legacy \in {[NoConn EXCEPT !.expectations = es] : es \in ConnTests}
    /\ worker = NoWorker

\* conn.next(): the first expectation that is not fulfilled, 0 for nil
connNext ==
    LET open == {i \in DOMAIN legacy.expectations :
                    ~legacy.expectations[i].triggered}
    IN  IF open = {} THEN 0 ELSE CHOOSE i \in open : \A j \in open : i <= j

\* the test goes on calling the connection: it has not closed it and no call
\* has ended in a panic
ConnInUse ==
    /\ legacy.closed.out = "none"
    /\ legacy.last.out # "panic"

\* the part of conn.Exec and conn.Query after eq.triggered = true, under the
\* deferred argMatcherErrorHandler
connCompare(e, sqlOk, args) ==
    IF ~sqlOk THEN "sqlMismatch"
    ELSE LET r == argsMatchesKinds(e.hasArgs, e.args, args)
         IN  IF r = "false" THEN "argsMismatch"
             ELSE IF r # "true"
             THEN IF argMatcherErrorHandler(r) = "err" THEN "compareErr"
                  ELSE "panic"
             ELSE IF e.err THEN "mockedErr"
             ELSE IF ~e.set THEN "notSet"
             ELSE "ok"

\* eq.triggered = true, executed before the text and the arguments are compared
triggeredBeforeCompare(out) == TRUE

\* conn.Exec(query, args) and conn.Query(query, args): op is the call, sqlOk
\* says whether the text matches the pattern of the expectation in line
connCall(op, sqlOk, args) ==
    /\ ConnInUse
    /\ LET i == connNext
       IN  IF i = 0
           THEN legacy' = [legacy EXCEPT
                              !.last = [op |-> op, idx |-> 0, out |-> "allFulfilled"]]
           ELSE IF legacy.expectations[i].kind # op
           THEN legacy' = [legacy EXCEPT
                              !.last = [op |-> op, idx |-> i, out |-> "unexpected"]]
           ELSE LET out == connCompare(legacy.expectations[i], sqlOk, args)
                IN  legacy' = [legacy EXCEPT
                       !.expectations[i].triggered = triggeredBeforeCompare(out),
                       !.expectations[i].how =
                           IF out \in {"sqlMismatch", "argsMismatch"}
                           THEN "refused" ELSE "taken",
                       !.last = [op |-> op, idx |-> i, out |-> out]]
    /\ UNCHANGED <<engine, rowvars, built, cmp, pool, worker>>

\* conn.Begin()
connBegin ==
    /\ ConnInUse
    /\ LET i == connNext
       IN  IF i = 0
           THEN legacy' = [legacy EXCEPT
                              !.last = [op |-> "Begin", idx |-> 0,
                                        out |-> "allFulfilled"]]
           ELSE IF legacy.expectations[i].kind # "Begin"
           THEN legacy' = [legacy EXCEPT
                              !.last = [op |-> "Begin", idx |-> i,
                                        out |-> "unexpected"]]
           ELSE legacy' = [legacy EXCEPT
                              !.expectations[i].triggered = TRUE,
                              !.expectations[i].how = "taken",
                              !.last = [op |-> "Begin", idx |-> i,
                                        out |-> IF legacy.expectations[i].err
                                                THEN "mockedErr" ELSE "ok"]]
    /\ UNCHANGED <<engine, rowvars, built, cmp, pool, worker>>

\* conn.Close(): the error names the first expectation that is not fulfilled,
\* idx 0 for a nil error; the expectations are dropped
connClose ==
    /\ ConnInUse
    /\ legacy' = [legacy EXCEPT
                     !.closed = [idx |-> connNext,
                                 out |-> IF connNext = 0 THEN "nil"
                                         ELSE "remaining"],
                     !.expectations = <<>>]
    /\ UNCHANGED <<engine, rowvars, built, cmp, pool, worker>>

NextConn ==
    \/ \E op \in {"Exec", "Query"}, sqlOk \in BOOLEAN, args \in ConnActual :
          connCall(op, sqlOk, args)
    \/ connBegin
    \/ connClose

SpecConn == InitConn /\ [][NextConn]_vars

\* ------------------------------------- the goroutine-based context wrappers
\* QueryContext and ExecContext of unnamed/part_020:99-166.  Each call that
\* found its expectation makes an unbuffered channel exec, defers close(exec),
\* starts a goroutine that runs the operation and then sends the result on
\* exec, and waits in a select for the result or for ctx.Done().  A call is its
\* op, the place pc of the calling goroutine, the channel, the place wk of the
\* worker goroutine, whether ctx.Done() is closed, and what the call returned
WorkerCall(op) ==
    [op |-> op, pc |-> "new", exec |-> "none", wk |-> "none", done |-> FALSE,
     ret |-> "none"]

\* the calls of a test, one per goroutine of the test
InitWorker ==
    /\ InitEngine(Scenario(<<>>, <<>>, 1, TRUE))
    /\ rs = NoRows
    /\ mem = <<>>
    /\ app = FreshApp
    /\ built = [cols |-> 0, rows |-> <<>>, converter |-> "default",
                values |-> <<>>, csv |-> <<>>, out |-> "none"]
    /\ cmp = [hasArgs |-> FALSE, args |-> <<>>, sqlOk |-> TRUE, actual |-> <<>>,
              fn |-> "none", out |-> "none"]
    /\ pool = [counter |-> 0, conns |-> {}, made |-> <<>>]
    /\ legacy = NoConn
    /\ worker \in [1..NumCallers -> {WorkerCall(op) : op \in {"Query", "Exec"}}]

\* a panic that no goroutine recovers ends the process
Running == \A i \in DOMAIN worker : worker[i].wk # "panic"

\* the test cancels the context of call i
CancelCtx(i) ==
    /\ Running
    /\ ~worker[i].done
    /\ worker[i].pc # "returned"
    /\ worker' = [worker EXCEPT ![i].done = TRUE]
    /\ UNCHANGED <<engine, rowvars, built, cmp, pool, legacy>>

\* the call begins: queryExpectation or execExpectation returns an error, which
\* the call returns at once, or the expectation; then exec is made, its close
\* deferred, the goroutine started and the select entered
ContextCall(i, found) ==
    /\ Running
    /\ worker[i].pc = "new"
    /\ worker' = [worker EXCEPT ![i] =
                     IF found
                     THEN [@ EXCEPT !.pc = "select", !.exec = "open",
                                    !.wk = "running"]
                     ELSE [@ EXCEPT !.pc = "returned", !.ret = "err"]]
    /\ UNCHANGED <<engine, rowvars, built, cmp, pool, legacy>>

\* a send on exec by the worker: on a closed channel it panics, on an open one
\* it waits for the receiver
send(exec) == IF exec = "closed" THEN "panic" ELSE "sending"

\* the worker goroutine has run c.query(ex) or c.exec(ex) and comes to
\* exec <- result{...}
WorkerSends(i) ==
    /\ Running
    /\ worker[i].wk = "running"
    /\ worker' = [worker EXCEPT ![i].wk = send(worker[i].exec)]
    /\ UNCHANGED <<engine, rowvars, built, cmp, pool, legacy>>

\* case res := <-exec: the worker is waiting in its send, the value passes and
\* the worker goroutine ends; the call is about to return the result
SelectResult(i) ==
    /\ Running
    /\ worker[i].pc = "select"
    /\ worker[i].wk = "sending"
    /\ worker' = [worker EXCEPT ![i].pc = "leaving", ![i].wk = "ended",
                                ![i].ret = "result"]
    /\ UNCHANGED <<engine, rowvars, built, cmp, pool, legacy>>

\* case <-ctx.Done(): the call is about to return CancelledStatementErr; when
\* the worker is waiting as well, the select takes either case
SelectDone(i) ==
    /\ Running
    /\ worker[i].pc = "select"
    /\ worker[i].done
    /\ worker' = [worker EXCEPT ![i].pc = "leaving", ![i].ret = "cancelled"]
    /\ UNCHANGED <<engine, rowvars, built, cmp, pool, legacy>>

\* the deferred close(exec) runs and the call returns; a goroutine waiting in
\* a send on the channel panics when the channel is closed
CloseExec(i) ==
    /\ Running
    /\ worker[i].pc = "leaving"
    /\ worker' = [worker EXCEPT ![i].pc = "returned", ![i].exec = "closed",
                                ![i].wk = IF @ = "sending" THEN send("closed")
                                          ELSE @]
    /\ UNCHANGED <<engine, rowvars, built, cmp, pool, legacy>>

NextWorker ==
    \/ \E i \in 1..NumCallers : CancelCtx(i)
    \/ \E i \in 1..NumCallers, found \in BOOLEAN : ContextCall(i, found)
    \/ \E i \in 1..NumCallers : WorkerSends(i)
    \/ \E i \in 1..NumCallers : SelectResult(i)
    \/ \E i \in 1..NumCallers : SelectDone(i)
    \/ \E i \in 1..NumCallers : CloseExec(i)

SpecWorker == InitWorker /\ [][NextWorker]_vars

\* ---------------------------------------------------------------- the driver registry
\* pool.counter, pool.conns (pairs of an identifier and the instance registered
\* under it) and the mock databases made so far.  The identifier n >= 0 is the
\* text "sqlmock_db_n"; -1 is a text that New never prints.
Names == (-1)..(MaxInst - 1)

\* one call of New / NewWithDSN: the identifier, the connections open on the
\* instance (c.opened), how far the call and its *sql.DB have come, the
\* instances that the connections of the *sql.DB were opened on, how often the
\* *sql.DB has asked for a connection, and how often mockDriver.Open has
\* returned the instance and Close has run on it
Inst(dsn, phase) ==
    [dsn |-> dsn, opened |-> 0, phase |-> phase, conn |-> <<>>,
     dials |-> 0, opens |-> 0, closes |-> 0]

\* `_, ok := pool.conns[dsn]`
Registered(dsn) == \E pr \in pool.conns : pr[1] = dsn

\* `c := d.conns[dsn]`
Lookup(dsn) == (CHOOSE pr \in pool.conns : pr[1] = dsn)[2]

\* pool.conns[dsn] = smock: a map holds one entry for a key
Store(dsn, k) == {pr \in pool.conns : pr[1] # dsn} \cup {<<dsn, k>>}

\* a mock database that was made and not closed
Live(k) == pool.made[k].phase \in {"registered", "open"}

InitNew ==
    /\ InitEngine(Scenario(<<>>, <<>>, 1, TRUE))
    /\ rs = NoRows
    /\ mem = <<>>
    /\ app = FreshApp
    /\ built = [cols |-> 0, rows |-> <<>>, converter |-> "default",
                values |-> <<>>, csv |-> <<>>, out |-> "none"]
    /\ cmp = [hasArgs |-> FALSE, args |-> <<>>, sqlOk |-> TRUE, actual |-> <<>>,
              fn |-> "none", out |-> "none"]
    /\ pool = [counter |-> 0, conns |-> {}, made |-> <<>>]
    /\ legacy = NoConn
    /\ worker = NoWorker

\* New, up to pool.Unlock(): the identifier is printed from pool.counter, the
\* counter advances and the instance is stored under the identifier, whatever
\* the map holds there
New ==
    /\ Len(pool.made) < MaxInst
    /\ pool' = [counter |-> pool.counter + 1,
                conns |-> Store(pool.counter, Len(pool.made) + 1),
                made |-> Append(pool.made, Inst(pool.counter, "registered"))]
    /\ UNCHANGED <<engine, rowvars, built, cmp, legacy, worker>>

\* NewWithDSN(dsn), up to pool.Unlock(): an identifier that is in the map is
\* refused with an error; any other is stored, and the counter stays
NewWithDSN(dsn) ==
    /\ Len(pool.made) < MaxInst
    /\ IF Registered(dsn)
       THEN pool' = [pool EXCEPT !.made = Append(@, Inst(dsn, "rejected"))]
       ELSE pool' = [pool EXCEPT !.conns = Store(dsn, Len(pool.made) + 1),
                                 !.made = Append(@, Inst(dsn, "registered"))]
    /\ UNCHANGED <<engine, rowvars, built, cmp, legacy, worker>>

\* the db.Ping() that ends New, or a later call of the *sql.DB that finds its
\* connections busy: database/sql asks the driver to open the identifier;
\* mockDriver.Open returns the instance the map holds for it and counts the
\* connection on that instance, or fails if the map holds none
Open(k) ==
    /\ k \in DOMAIN pool.made
    /\ pool.made[k].phase \in {"registered", "open"}
    /\ pool.made[k].dials < (IF k = 1 THEN MaxConn ELSE 1)
    /\ IF Registered(pool.made[k].dsn)
       THEN LET c == Lookup(pool.made[k].dsn)
            IN  pool' = [pool EXCEPT
                            !.made = [[pool.made EXCEPT ![c].opened = @ + 1,
                                                        ![c].opens = @ + 1]
                                         EXCEPT ![k].phase = "open",
                                                ![k].dials = @ + 1,
                                                ![k].conn = Append(@, c)]]
       ELSE pool' = [pool EXCEPT !.made[k].dials = @ + 1,
                                 !.made[k].phase = IF @ = "registered" THEN "failed"
                                                   ELSE @]
    /\ UNCHANGED <<engine, rowvars, built, cmp, legacy, worker>>

\* a Close that forgets the entry whatever is left open
lastClosedAlways(left) == TRUE

\* `if c.opened == 0`
lastClosed(left) == left = 0

\* the *sql.DB closes one of its connections: Close on the instance it was
\* opened on counts it off and, when that was the last one, deletes the entry
\* of the instance's identifier from the map
Close(k) ==
    /\ k \in DOMAIN pool.made
    /\ \E n \in DOMAIN pool.made[k].conn :
          LET c == pool.made[k].conn[n]
              left == pool.made[c].opened - 1
              rest == [i \in 1..(Len(pool.made[k].conn) - 1) |->
                          pool.made[k].conn[IF i < n THEN i ELSE i + 1]]
          IN  pool' = [pool EXCEPT
                          !.conns = IF lastClosed(left)
                                    THEN {pr \in @ : pr[1] # pool.made[c].dsn}
                                    ELSE @,
                          !.made = [[pool.made EXCEPT ![c].opened = left,
                                                      ![c].closes = @ + 1]
                                       EXCEPT ![k].conn = rest,
                                              ![k].phase = IF rest = <<>> THEN "closed"
                                                           ELSE @]]
    /\ UNCHANGED <<engine, rowvars, built, cmp, legacy, worker>>

NextNew ==
    \/ New
    \/ \E dsn \in Names : NewWithDSN(dsn)
    \/ \E k \in 1..MaxInst : Open(k)
    \/ \E k \in 1..MaxInst : Close(k)

SpecNew == InitNew /\ [][NextNew]_vars

\* ---------------------------------------------------------------- properties
\* call ci has returned
Returned(ci) == res[ci].code # "pending"

\* the calls that set expectation i triggered: those that returned with it and
\* those waiting out its delay
TriggeredBy(i) ==
    {ci \in DOMAIN res : res[ci].exp = i}
        \cup {g[p].ci : p \in {q \in Callers : g[q].pc = "wait" /\ g[q].exp = i}}

\* call c is the call expectation e was declared for, and e is programmed to
\* succeed
Fits(e, c) ==
    /\ e.kind = c.op
    /\ c.op \in SqlKinds => e.sql = c.sql
    /\ c.op \in {"Query", "Exec"} /\ e.hasArgs => e.args = c.args
    /\ ~e.err
    /\ e.ret

\* the SQL text of call c, or the arguments of a Query or Exec, differ from what
\* expectation e declares
Mismatch(e, c) ==
    \/ e.sql # c.sql
    \/ c.op \in {"Query", "Exec"} /\ e.hasArgs /\ e.args # c.args

\* every expectation of the test was declared before its first call, and the
\* mode has not been changed since
Settled == order # <<>> /\ ~raced /\ ~switched

\* C1: an expectation is set triggered by at most one call, however many race
\* for it: it is triggered exactly when one call has selected it, that call is
\* the only one holding it, and of two identical calls made for a single
\* expectation the one that did not get it finds every expectation fulfilled.
C1_OneCallWins ==
    /\ \A i \in DOMAIN expected :
          /\ selCount[i] <= 1
          /\ expected[i].triggered <=> selCount[i] = 1
          /\ Cardinality(TriggeredBy(i)) = selCount[i]
    /\ \A ci, cj \in DOMAIN calls :
          (/\ Len(expected) = 1 /\ Settled
           /\ ci # cj /\ calls[ci] = calls[cj]
           /\ res[ci].exp = 1 /\ Returned(cj))
          => res[cj].code = "allFulfilled" /\ res[cj].exp = 0

\* two goroutines were inside the same call for one pending expectation at the
\* same time; one got it, the other found it fulfilled
C1_Raced ==
    /\ overlap /\ Len(expected) = 1 /\ Len(calls) = 2 /\ calls[1] = calls[2]
    /\ \E ci, cj \in DOMAIN calls :
          /\ res[ci].code = "ok" /\ res[ci].exp = 1
          /\ res[cj].code = "allFulfilled"
    /\ expected[1].triggered /\ selCount[1] = 1

\* the test of P3: ordered mode, expectations of pairwise distinct kinds, call i
\* made for expectation i, the calls issued one after the other
OrderedCase ==
    /\ ordered /\ Settled /\ par = 1
    /\ Len(calls) = Len(expected)
    /\ \A i, j \in DOMAIN expected : i # j => expected[i].kind # expected[j].kind
    /\ \A i \in DOMAIN expected : Fits(expected[i], calls[i])

\* the first k calls were issued in declaration order
InDeclaredOrder(k) == \A j \in 1..k : order[j] = j

\* C2: in ordered mode, with N expectations of distinct kinds, the calls that
\* come in declaration order all succeed, each consuming its own expectation,
\* and the first call that comes out of that order fails.
C2_OrderedSequence ==
    OrderedCase =>
        \A k \in 1..Len(order) :
            Returned(order[k]) =>
                /\ InDeclaredOrder(k) =>
                      res[order[k]].code = "ok" /\ res[order[k]].exp = k
                /\ InDeclaredOrder(k - 1) /\ order[k] # k =>
                      res[order[k]].code = "wrongOrder" /\ res[order[k]].exp = 0

\* three expectations; the first call came in order and succeeded, the second
\* call was the one declared third and failed
C2_OutOfOrder ==
    /\ OrderedCase /\ Len(expected) = 3
    /\ Len(order) >= 2 /\ order[1] = 1 /\ order[2] = 3
    /\ res[1].code = "ok" /\ res[1].exp = 1
    /\ res[3].code = "wrongOrder"
    /\ ~expected[2].triggered /\ ~expected[3].triggered

\* call ci has returned; it was made in ordered mode, one call at a time, when
\* the first pending expectation was of its kind (Query, Exec or Prepare) but
\* declared another SQL text or other arguments
MismatchCase(ci) ==
    /\ Returned(ci) /\ ordered /\ ~switched /\ par = 1
    /\ res[ci].fp \in DOMAIN expected
    /\ calls[ci].op \in SqlKinds
    /\ expected[res[ci].fp].kind = calls[ci].op
    /\ Mismatch(expected[res[ci].fp], calls[ci])

\* C3: in ordered mode a Query, Exec or Prepare call of the kind of the first
\* pending expectation, but with another SQL text or other arguments, returns
\* the mismatch error about that expectation and consumes nothing: unless
\* another call triggers it the expectation stays pending, and a verification
\* that follows the calls reports it as unmet.
C3_MismatchKeepsPending ==
    \A ci \in DOMAIN calls :
        MismatchCase(ci) =>
            LET f == res[ci].fp
            IN  /\ res[ci].code \in {"sqlMismatch", "argsMismatch"}
                /\ res[ci].exp = 0
                /\ res[ci].at = f
                /\ TriggeredBy(f) = {} => ~expected[f].triggered
                /\ (TriggeredBy(f) = {} /\ vlate /\ vres.code # "none") =>
                      \/ vres = [code |-> "unmet", idx |-> f]
                      \/ vres.code = "notClosed" /\ vres.idx < f

\* an Exec with the expected text and other arguments was rejected, and the
\* verification after it named the expectation as unmet
C3_Rejected ==
    \E ci \in DOMAIN calls :
        /\ MismatchCase(ci)
        /\ calls[ci].op = "Exec" /\ res[ci].code = "argsMismatch"
        /\ expected[res[ci].fp].sql = calls[ci].sql
        /\ ~expected[res[ci].fp].triggered
        /\ vres = [code |-> "unmet", idx |-> res[ci].fp]

\* the test of P4: unordered mode, expectations of the SQL kinds with pairwise
\* distinct texts, call i made for expectation i
UnorderedCase ==
    /\ ~ordered /\ Settled
    /\ Len(calls) = Len(expected)
    /\ \A i \in DOMAIN expected : expected[i].kind \in SqlKinds
    /\ \A i, j \in DOMAIN expected : i # j => expected[i].sql # expected[j].sql
    /\ \A i \in DOMAIN expected : Fits(expected[i], calls[i])

Unmet == {i \in 1..vn : ~expected[i].triggered}

\* those that had to be closed (rows of a Query, statement of a Prepare) and
\* are not
Unclosed ==
    {i \in 1..vn : /\ expected[i].kind \in {"Query", "Prepare"}
                  /\ expected[i].mustClose
                  /\ ~expected[i].closed}

\* ExpectationsWereMet returns with this step
Concludes == vpc = "walk" /\ vpc' = "idle"

\* C5: ExpectationsWereMet returns nil exactly when every expectation is
\* triggered and every required close has happened; the error about an
\* expectation that was not matched names the first one, in declaration order,
\* that is not triggered, and the error about a missing close names a triggered
\* expectation that precedes every untriggered one.
C5_FirstUnmet ==
    [][Concludes =>
          /\ vres'.code = "ok" <=> (Unmet = {} /\ Unclosed = {})
          /\ vres'.code = "unmet" =>
                /\ vres'.idx \in Unmet
                /\ \A j \in Unmet : vres'.idx <= j
          /\ vres'.code = "notClosed" =>
                /\ vres'.idx \in Unclosed \ Unmet
                /\ \A j \in Unmet : vres'.idx < j
          /\ vres'.code \in {"ok", "unmet", "notClosed"}]_vars

\* the walk passed a triggered expectation and stopped at the second, which
\* was still pending
C5_SecondUnmet ==
    /\ vpc = "idle" /\ vres = [code |-> "unmet", idx |-> 2]
    /\ expected[1].triggered /\ ~expected[2].triggered
    /\ Unclosed = {}

\* C6: ExpectationsWereMet does not return nil while a Query or Prepare
\* expectation declared as to-be-closed is not closed, and the error it returns
\* about the missing close is about an expectation that is triggered.
C6_MustBeClosed ==
    /\ vres.code = "ok" =>
          \A i \in 1..vn :
              (expected[i].kind \in {"Query", "Prepare"} /\ expected[i].mustClose)
                  => expected[i].closed
    /\ vres.code = "notClosed" =>
          /\ expected[vres.idx].triggered
          /\ expected[vres.idx].mustClose
          /\ expected[vres.idx].kind \in {"Query", "Prepare"}

\* the rows of a triggered Query expectation were handed out and never closed;
\* the verification after the calls failed on it
C6_RowsLeftOpen ==
    /\ vlate /\ vres.code = "notClosed"
    /\ expected[vres.idx].kind = "Query"
    /\ expected[vres.idx].triggered /\ ~expected[vres.idx].closed
    /\ Handed(vres.idx)

\* the expectation has something to return: an error, or the payload of its kind
HasOutcome(e) == e.err \/ e.ret \/ e.kind \notin {"Query", "Exec"}

\* call ci entered through a context-aware method, selected an expectation that
\* has an outcome programmed, and its context was cancelled before the delay of
\* that expectation had elapsed
CancelledEarly(ci) ==
    /\ Returned(ci) /\ calls[ci].ctx /\ ci \in early
    /\ res[ci].exp # 0
    /\ HasOutcome(expected[res[ci].exp])

\* C7 as stated: a context-aware call whose context was cancelled before the
\* delay of the selected expectation had elapsed returns ErrCancelled.
C7_AlwaysCancelled ==
    \A ci \in DOMAIN calls :
        CancelledEarly(ci) => res[ci].code = "cancelled"

\* C7, amended: a context-aware call whose context was cancelled before the
\* positive delay of the selected expectation had elapsed returns ErrCancelled,
\* never the programmed error or payload of that expectation.
C7_CancelledDuringDelay ==
    \A ci \in DOMAIN calls :
        (CancelledEarly(ci) /\ expected[res[ci].exp].delay > 0)
            => res[ci].code = "cancelled"

\* an expectation programmed with an error and a delay; the context was
\* cancelled while the delay ran and the call returned ErrCancelled
C7_ErrorNotReturned ==
    \E ci \in DOMAIN calls :
        /\ CancelledEarly(ci) /\ res[ci].code = "cancelled"
        /\ expected[res[ci].exp].err
        /\ expected[res[ci].exp].delay > 0
        /\ res[ci].waited < expected[res[ci].exp].delay

\* call cj was issued after call ci
IssuedAfter(ci, cj) ==
    \E a, b \in DOMAIN order : a < b /\ order[a] = ci /\ order[b] = cj

\* C8: the expectation of a call that returned ErrCancelled is triggered, that
\* call is the only one that ever selected it, a call made after it neither
\* gets that expectation nor is matched against it, and the verification that
\* follows the calls does not report it as unmet.
C8_CancelledStaysTriggered ==
    \A ci \in DOMAIN calls :
        res[ci].code = "cancelled" =>
            LET e == res[ci].exp
            IN  /\ e \in DOMAIN expected
                /\ expected[e].triggered
                /\ TriggeredBy(e) = {ci}
                /\ \A cj \in DOMAIN calls \ {ci} :
                      (Returned(cj) /\ IssuedAfter(ci, cj) /\ par = 1)
                          => res[cj].exp # e /\ res[cj].at # e
                /\ vlate /\ vres.code # "none" =>
                      ~(vres.code = "unmet" /\ vres.idx = e)

\* the call was cancelled during the delay, its retry found every expectation
\* fulfilled, and ExpectationsWereMet returned nil
C8_RetryRefused ==
    \E ci, cj \in DOMAIN calls :
        /\ order = <<ci, cj>> /\ calls[ci] = calls[cj]
        /\ res[ci].code = "cancelled" /\ res[ci].exp = 1
        /\ res[cj].code = "allFulfilled"
        /\ vlate /\ vres.code = "ok"

\* C9: a call that returns the programmed outcome of its expectation, error or
\* payload alike, has waited out the whole delay of that expectation; with no
\* delay it has not waited at all.
C9_DelayHonoured ==
    \A ci \in DOMAIN calls :
        (res[ci].code \in {"ok", "progErr"} /\ res[ci].exp # 0) =>
            /\ res[ci].waited >= expected[res[ci].exp].delay
            /\ expected[res[ci].exp].delay = 0 => res[ci].waited = 0

\* a programmed error came back after the longest delay had been waited out
C9_SlowFail ==
    \E ci \in DOMAIN calls :
        /\ res[ci].code = "progErr"
        /\ expected[res[ci].exp].delay = MaxDelay
        /\ res[ci].waited = MaxDelay

\* C10: no step takes an expectation out of the queue, makes a triggered one
\* pending again or a closed one open again; and only a triggered expectation
\* is ever closed.
C10_OnlyForward ==
    [][\A i \in DOMAIN expected :
          /\ i \in DOMAIN expected'
          /\ expected[i].triggered => expected'[i].triggered
          /\ expected[i].closed => expected'[i].closed
          /\ expected'[i].closed => expected'[i].triggered]_vars

\* the first expectation was triggered and closed before the second one was
\* declared, and it still is after the second was triggered too
C10_ClosedThenDeclared ==
    /\ raced /\ Len(expected) = 2
    /\ expected[1].triggered /\ expected[1].closed
    /\ expected[2].triggered
    /\ res[2].fp = 2

\* C11: every step that writes an expectation's triggered flag, or the
\* rows-were-closed flag of a Query expectation, is taken while the lock of
\* that expectation is held.
C11_WritesUnderLock ==
    [][\A i \in DOMAIN expected :
          (\/ expected'[i].triggered # expected[i].triggered
           \/ /\ expected[i].kind = "Query"
              /\ expected'[i].closed # expected[i].closed)
          => mu[i] \in Callers]_vars

\* the fields of expectation e that are fixed when it is declared
Declared(e) == [e EXCEPT !.triggered = FALSE, !.closed = FALSE]

\* C12 (as stated): once the first call has been issued no expectation is
\* appended to or removed from the queue.
C12_NoLateAppend ==
    [][order # <<>> => Len(expected') = Len(expected)]_vars

\* C12 (amended): the queue only ever grows at its tail, also after calls have
\* started: every expectation keeps its place and its declaration, and a call
\* walks the expectations that were in the queue when its loop began, all of
\* which are still there.
C12_AppendOnly ==
    [][/\ Len(expected') \in {Len(expected), Len(expected) + 1}
       /\ \A i \in DOMAIN expected : Declared(expected'[i]) = Declared(expected[i])
       /\ \A p \in Callers :
             g'[p].pc # "idle"
             => /\ g'[p].n <= Len(expected')
                /\ g'[p].idx <= g'[p].n + 1
                /\ g[p].pc # "idle" => g'[p].n = g[p].n]_vars

\* C12 witness: the second expectation was declared after the first call and
\* both calls found theirs.
C12_DeclaredBetweenCalls ==
    /\ raced
    /\ par = 1
    /\ Len(order) = 2
    /\ \A k \in 1..2 : res[order[k]].code = "ok" /\ res[order[k]].exp = k

\* caller p is inside a call made in ordered mode, one call at a time, whose
\* kind is not the kind of the expectation that was first pending
WrongKindCase(p) ==
    /\ g[p].pc # "idle"
    /\ par = 1
    /\ ordered
    /\ g[p].fp \in DOMAIN expected
    /\ expected[g[p].fp].kind # calls[g[p].ci].op

\* C13: in ordered mode a call whose kind differs from the kind of the first
\* pending expectation never looks past that expectation, selects nothing,
\* waits for nothing, changes no triggered flag, and returns the error that
\* names that expectation.
C13_WrongKindFailsAtOnce ==
    [][\A p \in Callers :
          WrongKindCase(p)
          => /\ \A i \in DOMAIN expected :
                   expected'[i].triggered = expected[i].triggered
             /\ g'[p].pc \in {"scan", "idle"}
             /\ g'[p].pc = "scan" => g'[p].idx <= g[p].fp /\ g'[p].exp = 0
             /\ g'[p].pc = "idle"
                => /\ res'[g[p].ci].code = "wrongOrder"
                   /\ res'[g[p].ci].at = g[p].fp
                   /\ res'[g[p].ci].exp = 0
                   /\ res'[g[p].ci].waited = 0]_vars

\* C13 witness: the first expectation is met, the call is of the kind of the
\* third one, and it was refused with the error naming the second; the second
\* and third are still pending.
C13_RefusedAtSecond ==
    /\ par = 1
    /\ ordered
    /\ Len(expected) = 3
    /\ expected[1].triggered
    /\ ~expected[2].triggered
    /\ ~expected[3].triggered
    /\ \E ci \in DOMAIN calls :
          /\ calls[ci].op = expected[3].kind
          /\ res[ci].code = "wrongOrder"
          /\ res[ci].fp = 2
          /\ res[ci].at = 2

\* expectation e is of the kind of call c and accepts its text and arguments
Accepts(e, c) ==
    /\ e.kind = c.op
    /\ c.op \in SqlKinds => e.sql = c.sql
    /\ c.op \in {"Query", "Exec"} /\ e.hasArgs => e.args = c.args

\* C14: in unordered mode the triggered flag of an expectation changes only in
\* the step of a call that selected it, that expectation accepts the call, and
\* no other flag changes in that step; the expectation a call selects is one
\* that accepts it, every other one it passes stays as it was, and a call that
\* returns without having selected one has changed no flag.
C14_OnlyTheSelected ==
    [][~ordered
       => /\ \A i \in DOMAIN expected :
                expected'[i].triggered # expected[i].triggered
                => /\ \E p \in Callers :
                         /\ g[p].pc = "found"
                         /\ g[p].exp = i
                         /\ Accepts(expected[i], calls[g[p].ci])
                   /\ \A j \in DOMAIN expected \ {i} :
                         expected'[j].triggered = expected[j].triggered
          /\ \A p \in Callers :
                /\ g[p].pc = "scan" /\ g'[p].pc = "found"
                   => Accepts(expected[g'[p].exp], calls[g[p].ci])
                /\ g[p].pc = "scan" /\ g'[p].pc = "idle"
                   => /\ res'[g[p].ci].exp = 0
                      /\ \A i \in DOMAIN expected :
                            ~expected[i].triggered => selCount[i] = 0]_vars

\* C14 witness: unordered mode, three pending expectations of one kind; the
\* call was accepted by the third only, which is the only one triggered.
C14_SkippedTwo ==
    /\ ~ordered
    /\ Len(expected) = 3
    /\ ~expected[1].triggered
    /\ ~expected[2].triggered
    /\ expected[3].triggered
    /\ \E ci \in DOMAIN calls :
          /\ res[ci].code = "ok"
          /\ res[ci].exp = 3
          /\ res[ci].fp = 1

\* the codes of the errors of a call that left the loop with no expectation
Unselected == {"allFulfilled", "notExpected", "wrongOrder"}

\* C15: a call that selects no expectation says "all expectations were already
\* fulfilled" only when every expectation of the queue is triggered, and, when
\* calls are made one at a time, always when every expectation is triggered;
\* with an expectation still pending it says only that the call was not
\* expected.
C15_AllFulfilledMessage ==
    [][\A ci \in DOMAIN calls :
          res[ci].code = "pending" /\ res'[ci].code \in Unselected
          => /\ res'[ci].code = "allFulfilled"
                => \A i \in DOMAIN expected : expected[i].triggered
             /\ par = 1 /\ (\A i \in DOMAIN expected : expected[i].triggered)
                => res'[ci].code = "allFulfilled"]_vars

\* C15 witness: calls are made one at a time, the only expectation was met by
\* the first call, and the second call was told that all expectations were
\* already fulfilled.
C15_ToldAllFulfilled ==
    /\ par = 1
    /\ Len(expected) = 1
    /\ expected[1].triggered
    /\ Len(order) = 2
    /\ res[order[1]].exp = 1
    /\ res[order[2]].code = "allFulfilled"
    /\ res[order[2]].fp = 0
    /\ res[order[2]].exp = 0

\* call ci was made when no other call was running, has returned, and the
\* expectation that was first pending when it began accepts it
MatchedFirst(ci) ==
    /\ Returned(ci)
    /\ par = 1
    /\ res[ci].fp \in DOMAIN expected
    /\ Accepts(expected[res[ci].fp], calls[ci])

\* C16: a call that matches an expectation programmed with an error gets that
\* expectation, which is triggered from then on; it returns the programmed
\* error of that expectation, unless its context was cancelled before it
\* returned, when it may return ErrCancelled instead; and the verification that
\* follows the calls does not report the expectation as unmet.
C16_ProgrammedError ==
    \A ci \in DOMAIN calls :
        (MatchedFirst(ci) /\ expected[res[ci].fp].err) =>
            /\ res[ci].exp = res[ci].fp
            /\ expected[res[ci].fp].triggered
            /\ res[ci].code \in {"progErr", "cancelled"}
            /\ res[ci].code = "cancelled" => calls[ci].ctx /\ ctxDone[ci]
            /\ vlate /\ vres.code # "none" =>
                  ~(vres.code = "unmet" /\ vres.idx = res[ci].fp)

\* C16 witness: the first expectation was programmed with an error and no
\* payload, its call returned that error, the second call succeeded, and
\* ExpectationsWereMet returned nil.
C16_ErrorMeetsExpectation ==
    /\ Len(expected) = 2
    /\ Len(order) = 2
    /\ expected[1].err
    /\ ~expected[1].ret
    /\ MatchedFirst(order[1])
    /\ res[order[1]].code = "progErr"
    /\ res[order[1]].exp = 1
    /\ res[order[2]].code = "ok"
    /\ res[order[2]].exp = 2
    /\ vlate
    /\ vres.code = "ok"

\* C17: a Query or Exec call that matches an expectation that has neither an
\* error nor rows or a result returns the error saying that the return value
\* was not set, whatever its context; and no Query or Exec call returns
\* successfully from an expectation without a payload.
C17_MissingReturnValue ==
    \A ci \in DOMAIN calls :
        /\ (/\ MatchedFirst(ci)
            /\ calls[ci].op \in {"Query", "Exec"}
            /\ ~expected[res[ci].fp].err
            /\ ~expected[res[ci].fp].ret)
           => res[ci].code = "noReturn" /\ res[ci].at = res[ci].fp
        /\ (/\ Returned(ci)
            /\ calls[ci].op \in {"Query", "Exec"}
            /\ res[ci].code = "ok")
           => res[ci].exp \in DOMAIN expected /\ expected[res[ci].exp].ret

\* C17 witness: an ExecContext call whose context was cancelled matched an
\* expectation with a delay and with neither error nor result, and returned the
\* missing-return-value error.
C17_NothingToReturn ==
    \E ci \in DOMAIN calls :
        /\ MatchedFirst(ci)
        /\ calls[ci].op = "Exec"
        /\ calls[ci].ctx
        /\ ctxDone[ci]
        /\ ~expected[res[ci].fp].err
        /\ ~expected[res[ci].fp].ret
        /\ expected[res[ci].fp].delay > 0
        /\ res[ci].code = "noReturn"

\* the expectation the loop stops at for call c under the mode as it is now:
\* in ordered mode the first pending one, if it is of the kind of c; in
\* unordered mode the first pending one that accepts c; 0 if there is none
Target(c) ==
    IF ordered
    THEN IF FirstPending # 0 /\ expected[FirstPending].kind = c.op
         THEN FirstPending ELSE 0
    ELSE IF \E i \in DOMAIN expected : ~expected[i].triggered /\ Accepts(expected[i], c)
         THEN CHOOSE i \in DOMAIN expected :
                 /\ ~expected[i].triggered /\ Accepts(expected[i], c)
                 /\ \A j \in 1..(i - 1) :
                       expected[j].triggered \/ ~Accepts(expected[j], c)
         ELSE 0

\* C18: MatchExpectationsInOrder(b) sets the mode to b at any moment and leaves
\* the queue as it is; a call made when no other call is running is matched
\* under the mode set last, against the expectations that are pending then: it
\* stops at the target of that mode, or fails when that mode has no target for
\* it, in ordered mode with the error naming the first pending expectation.
C18_SwitchAnyTime ==
    [][/\ (script # <<>> /\ Head(script).op = "order" /\ script' = Tail(script))
          => ordered' = Head(script).b /\ expected' = expected
       /\ \A p \in Callers :
             (par = 1 /\ g[p].pc = "scan")
             => /\ g'[p].pc = "found" => g'[p].exp = Target(calls[g[p].ci])
                /\ g'[p].pc = "idle"
                   => /\ Target(calls[g[p].ci]) = 0
                      /\ ordered /\ FirstPending # 0
                         => /\ res'[g[p].ci].code = "wrongOrder"
                            /\ res'[g[p].ci].at = FirstPending]_vars

\* C18 witness: declared in unordered mode; the first call took the third
\* expectation; then the mode was switched to ordered, and the call for the
\* second expectation was refused with the error naming the first, which is
\* still pending.
C18_OrderedAgain ==
    /\ par = 1
    /\ switched
    /\ ordered
    /\ Len(expected) = 3
    /\ Len(order) >= 2
    /\ res[order[1]].code = "ok"
    /\ res[order[1]].exp = 3
    /\ res[order[1]].fp = 1
    /\ res[order[2]].code = "wrongOrder"
    /\ res[order[2]].at = 1
    /\ Accepts(expected[2], calls[order[2]])
    /\ ~expected[1].triggered
    /\ expected[3].triggered

\* what a kept item holds now
Cur(it) == IF it.h # 0 THEN mem[it.h] ELSE it.val

\* a kept reference to a slice that a later Next or Close has released
Stale(it) == it.h # 0 /\ it.h \notin Range(rs.raw)

\* C19 (as stated): a reference kept from a row no longer equals its value once
\* a later advance or the close has passed, and a kept ordinary value still
\* equals its value.
C19_RetainedDiffers ==
    \A k \in DOMAIN app.held :
        LET it == app.held[k]
        IN  /\ Stale(it) => Cur(it) # it.was
            /\ it.h = 0 => Cur(it) = it.was

\* C19 (amended): the slices handed out by the current row hold the bytes of
\* their cells; every slice handed out by an earlier advance holds the pattern,
\* repeated and cut to its length, so a reference kept to it differs from its
\* value exactly when that value is not itself such a run of the pattern; a
\* kept copy or ordinary value equals its value.
C19_PoisonedInPlace ==
    /\ \A i \in DOMAIN app.dest :
          (app.dest[i].typ = "raw" /\ app.dest[i].h \in Range(rs.raw))
          => mem[app.dest[i].h] = rs.rows[rs.pos][i].v
    /\ \A h \in DOMAIN mem :
          h \notin Range(rs.raw) => mem[h] = Overwritten(mem[h])
    /\ \A k \in DOMAIN app.held :
          LET it == app.held[k]
          IN  /\ it.h # 0 /\ ~Stale(it) => Cur(it) = it.was
              /\ Stale(it) => /\ Cur(it) = Overwritten(it.was)
                              /\ Cur(it) # it.was <=> it.was # Overwritten(it.was)
              /\ it.h = 0 => Cur(it) = it.was

\* C19 witness: the slice and the int64 of the first row were kept, the second
\* row has been read, the slice no longer holds its value and the int64 does.
C19_StaleReference ==
    /\ rs.pos = 2
    /\ app.got = "row"
    /\ \E j, k \in DOMAIN app.held :
          /\ app.held[j].row = 1
          /\ Stale(app.held[j])
          /\ Len(app.held[j].was) = MaxLen
          /\ Cur(app.held[j]) # app.held[j].was
          /\ app.held[k].row = 1
          /\ app.held[k].h = 0
          /\ app.held[k].was = 1
          /\ Cur(app.held[k]) = 1

C21_RowKDelivered ==
    [][(SqlNext /\ rs.nextErr \in 1..Len(rs.rows) /\ rs'.pos \in 1..rs.nextErr)
          => app'.got = "row"]_vars

\* C21 (amended): with a RowError on row k the advance onto every row before
\* row k delivers that row's values without an error, the advance onto row k
\* returns the error and the rows are closed, the cursor never moves past row
\* k, and no other advance returns an error.
C21_RowErrorStops ==
    [][/\ SqlNext =>
             /\ app'.got = "err" <=>
                    (rs'.pos = rs.nextErr /\ rs'.pos <= Len(rs.rows))
             /\ app'.got = "err" => app'.closed
             /\ (rs'.pos <= Len(rs.rows) /\ rs'.pos # rs.nextErr) =>
                    /\ app'.got = "row"
                    /\ app'.dest[2] = rs.rows[rs'.pos][2]
       /\ rs'.nextErr \in 1..Len(rs'.rows) => rs'.pos <= rs'.nextErr]_vars

\* C21 witness: the RowError is on the second of two rows; the first row was
\* delivered and kept, the second advance returned the error.
C21_ErrorAtSecond ==
    /\ rs.nextErr = 2
    /\ Len(rs.rows) = 2
    /\ rs.pos = 2
    /\ app.got = "err"
    /\ app.closed
    /\ Len(app.held) = 2
    /\ app.held[2].row = 1
    /\ app.held[2].was = 1

\* C22: an advance never changes the result set it reads from; once the cursor
\* is at or past the last row of the current result set every advance reports
\* the end of the data and, while a further result set exists, leaves the rows
\* open; a delivered row is the row of the current result set that the cursor
\* has reached; a request for the next result set, when there is one, makes it
\* the current one with the cursor before its first row.
C22_StaysInBatch ==
    [][/\ SqlNext =>
             /\ rs'.setPos = rs.setPos
             /\ rs'.later = rs.later
             /\ rs'.rows = rs.rows
             /\ rs.pos >= Len(rs.rows) =>
                    /\ app'.got = "eof"
                    /\ Len(rs.later) > 0 => ~app'.closed
             /\ app'.got = "row" =>
                    app'.dest[2] = IntCell(RowNo(rs.setPos + 1, rs.pos + 1))
       /\ (SqlNextResultSet /\ Len(rs.later) > 0) =>
             /\ rs'.setPos = rs.setPos + 1
             /\ rs'.rows = Head(rs.later).rows
             /\ rs'.later = Tail(rs.later)
             /\ rs'.pos = 0
             /\ ~app'.closed]_vars

\* C22 witness: the first result set was read past its end, every advance
\* allowed there reported the end of the data, the next result set was asked
\* for, and the advance after that delivered the first row of the second set.
C22_FirstRowOfSecond ==
    /\ app.eofs = 1 + MaxOver
    /\ rs.setPos = 1
    /\ rs.pos = 1
    /\ Len(rs.rows) = MaxRows
    /\ app.got = "row"
    /\ app.dest[2] = IntCell(RowNo(2, 1))

\* C23 (as stated): an AddRow with as many values as columns succeeds and
\* stores the converted values as a row; any other AddRow panics and stores
\* nothing.
C23_EqualCountSucceeds ==
    [][AddRow =>
          IF Len(built.values) = built.cols
          THEN /\ built'.out = "ok"
               /\ Len(built'.rows) = Len(built.rows) + 1
          ELSE /\ built'.out = "panic"
               /\ built'.rows = built.rows]_vars

\* C23 (amended): an AddRow whose number of values differs from the number of
\* columns, or one of whose values the converter refuses, panics and leaves the
\* rows as they were; every other AddRow succeeds, keeps the rows that were
\* there and appends one row that holds, column by column, what the converter
\* made of the values.
C23_ArityAndConversion ==
    [][AddRow =>
          LET n == Len(built.values)
              refused == {i \in 1..n :
                             ~ConvertValue(built.converter, built.values[i]).ok}
          IN  IF n # built.cols \/ refused # {}
              THEN /\ built'.out = "panic"
                   /\ built'.rows = built.rows
              ELSE /\ built'.out = "ok"
                   /\ Len(built'.rows) = Len(built.rows) + 1
                   /\ SubSeq(built'.rows, 1, Len(built.rows)) = built.rows
                   /\ Len(built'.rows[Len(built'.rows)]) = built.cols
                   /\ \A i \in 1..n :
                         LET was == built.values[i]
                             now == built'.rows[Len(built'.rows)][i]
                         IN  /\ now.v = was.v
                             /\ now.typ = IF was.typ = "int" THEN "int64"
                                          ELSE "string"]_vars

\* C23 witness: a second row of MaxCols values was added to a row set; its int
\* was stored as an int64, its string as it was.
C23_RowAdded ==
    /\ built.out = "ok"
    /\ built.cols = MaxCols
    /\ Len(built.rows) = MaxRows
    /\ built.values[1] = Given("int", MaxByte)
    /\ built.values[MaxCols] = Given("string", 1)
    /\ built.rows[MaxRows][1] = Given("int64", MaxByte)
    /\ built.rows[MaxRows][MaxCols] = Given("string", 1)

\* C24: an Exec whose argument comparison ends in a reflection fault returns
\* an error to its caller and does not panic.
C24_FaultBecomesNoMatch ==
    (/\ cmp.fn \in {"ExecInOrder", "ExecAnyOrder"}
     /\ cmp.sqlOk
     /\ argsMatchesKinds(cmp.hasArgs, cmp.args, cmp.actual) = "ValueError")
        => cmp.out = "err"

Numeric(a, v) == \E family \in {Signed, Unsigned, Floats} :
                     a.kind \in family /\ v.kind \in family
Matches(a, v) ==
    \/ Numeric(a, v) /\ a.v = v.v
    \/ a.kind = "string" /\ v.kind = "string" /\ a = v
    \/ a.kind \in {"bool", "struct"} /\ a.kind = v.kind
    \/ a.kind = "int64" /\ v = Int64Text

Pending == {i \in DOMAIN expected : ~expected[i].triggered}
PendingClose == {i \in Pending : expected[i].kind = "Close"}

\* the ExpectedClose that the loop of Close stops at: in ordered mode the first
\* pending expectation if it is one, in unordered mode the first pending
\* ExpectedClose; 0 if there is none
CloseSelects ==
    IF PendingClose = {} \/ (ordered /\ FirstPending \notin PendingClose) THEN 0
    ELSE CHOOSE i \in PendingClose : \A j \in PendingClose : i <= j

\* the step in which the Close call ci returns
CloseReturns(ci) ==
    /\ calls[ci].op = "Close"
    /\ res[ci].code = "pending"
    /\ res'[ci].code # "pending"

C28_NilOnlyIfSelected ==
    [][\A ci \in DOMAIN calls :
          CloseReturns(ci)
              => /\ res'[ci].code = "ok"
                      => /\ CloseSelects # 0
                         /\ res'[ci].exp = CloseSelects
                         /\ expected'[CloseSelects].triggered
                         /\ Pending' = Pending \ {CloseSelects}
                 /\ PendingClose = {}
                      => /\ res'[ci].code \in {"wrongOrder", "notExpected", "allFulfilled"}
                         /\ res'[ci].code = "allFulfilled" <=> Pending = {}
                         /\ expected' = expected]_vars

\* one Close has returned nil for the ExpectedClose it triggered and a second
\* Close found nothing pending
C28_SecondCloseRefused ==
    \E ci, cj \in DOMAIN calls :
        /\ calls[ci].op = "Close" /\ res[ci].code = "ok"
        /\ expected[res[ci].exp].kind = "Close"
        /\ calls[cj].op = "Close" /\ res[cj].code = "allFulfilled"

\* ---------------------------------------------------------------- pings
\* the step in which the Ping call ci returns
PingReturns(ci) ==
    /\ calls[ci].op = "Ping"
    /\ res[ci].code = "pending"
    /\ res'[ci].code # "pending"

\* C29: while pings are not monitored, a Ping returns nil in the step that
\* issues it, without walking, locking or changing the queue; ExpectPing leaves
\* the queue as it is, so the queue never holds an ExpectedPing and
\* ExpectationsWereMet, which walks the queue, never reports one.
C29_PingsNotMonitored ==
    [][~monitorPings
          => /\ \A ci \in DOMAIN calls :
                  PingReturns(ci)
                      => /\ res'[ci] = [NoResult EXCEPT !.code = "ok"]
                         /\ ci \in todo
                         /\ <<expected, mu, selCount, g, verif>>'
                                = <<expected, mu, selCount, g, verif>>
             /\ \A p \in Callers : g'[p].pc # "idle" => calls[g'[p].ci].op # "Ping"
             /\ (AtStep("expect") /\ Head(script).e.kind = "Ping" /\ script' = Tail(script))
                    => <<expected, mu, selCount, verif>>' = <<expected, mu, selCount, verif>>
             /\ \A i \in DOMAIN expected' : expected'[i].kind # "Ping"
             /\ vres'.code \in {"unmet", "notClosed"}
                    => expected'[vres'.idx].kind # "Ping"]_vars

\* without monitoring: ExpectPing and ExpectBegin were declared, Ping and Begin
\* were called and returned nil, the queue holds the ExpectedBegin alone and
\* ExpectationsWereMet has returned nil
C29_PingLeftNoTrace ==
    /\ ~monitorPings
    /\ script = <<>>
    /\ \E ci \in DOMAIN calls : calls[ci].op = "Ping" /\ res[ci].code = "ok"
    /\ Len(expected) = 1 /\ expected[1].kind = "Begin" /\ expected[1].triggered
    /\ vpc = "idle" /\ vres.code = "ok"

\* ---------------------------------------------------------------- registry
\* C30: a call that registers a mock database registers it under an identifier
\* that no other live instance uses, and a call that names an identifier which
\* is registered is rejected and leaves the registry as it is.
C30_FreshOrRejected ==
    [][\A k \in DOMAIN pool'.made \ DOMAIN pool.made :
          /\ pool'.made[k].phase = "registered"
                => \A j \in DOMAIN pool.made :
                      Live(j) => pool.made[j].dsn # pool'.made[k].dsn
          /\ Registered(pool'.made[k].dsn)
                => /\ pool'.made[k].phase = "rejected"
                   /\ pool'.conns = pool.conns]_vars

\* ---------------------------------------------------------------- ordered prefix
\* C31: while a test runs in ordered mode, the triggered expectations are a
\* prefix of the queue, and a caller that has stopped at an expectation has
\* stopped at the first pending one, whatever the interleaving of the callers.
C31_TriggeredPrefix ==
    (ordered /\ ~switched)
        => /\ \A i \in DOMAIN expected :
                expected[i].triggered => \A j \in 1..(i - 1) : expected[j].triggered
           /\ \A p \in Callers :
                g[p].pc = "found" => g[p].exp = FirstPending

\* ordered mode, calls that overlapped in time: the first expectation is
\* triggered, the second is pending and a caller has stopped at it
C31_RacedInOrder ==
    /\ ordered /\ ~switched /\ overlap
    /\ Len(expected) = 2
    /\ expected[1].triggered /\ ~expected[2].triggered
    /\ \E p \in Callers : g[p].pc = "found" /\ g[p].exp = 2

\* ---------------------------------------------------------------- unordered selection
\* C32: in unordered mode the expectation that a call triggers matches the
\* call's kind, SQL and arguments, and no expectation declared before it is
\* both pending and a match for the call.
C32_EarliestMatch ==
    [][~ordered
          => \A p \in Callers :
                (g[p].pc = "found" /\ ~expected[g[p].exp].triggered
                    /\ expected'[g[p].exp].triggered)
                    => /\ attemptMatch(expected[g[p].exp], calls[g[p].ci])
                       /\ \A j \in 1..(g[p].exp - 1) :
                             ~expected[j].triggered
                                 => ~attemptMatch(expected[j], calls[g[p].ci])]_vars

\* unordered mode: a call has triggered the first expectation while the second,
\* still pending, matches the call as well
C32_TwoCandidates ==
    /\ ~ordered /\ ~switched
    /\ Len(expected) >= 2
    /\ expected[1].triggered /\ ~expected[2].triggered
    /\ \E ci \in DOMAIN calls :
          /\ res[ci].exp = 1
          /\ calls[ci].op \in SqlKinds
          /\ attemptMatch(expected[2], calls[ci])

\* ---------------------------------------------------------------- racing claims
\* unordered mode, identical calls that the mock watches, and every expectation
\* of the queue matches them and is programmed to succeed
RaceCase ==
    /\ ~ordered /\ Settled
    /\ \A ci, cj \in DOMAIN calls : calls[ci] = calls[cj]
    /\ \A ci \in DOMAIN calls : calls[ci].op = "Ping" => monitorPings
    /\ \A i \in DOMAIN expected :
          /\ \A ci \in DOMAIN calls : attemptMatch(expected[i], calls[ci])
          /\ ~expected[i].err /\ expected[i].ret

\* the calls that returned successfully
Succeeded == {ci \in DOMAIN calls : res[ci].code = "ok"}

\* C33: in unordered mode, of m identical calls racing for n expectations that
\* all match them, no two succeed with the same expectation, every call that
\* does not succeed fails with the "all expectations were already fulfilled ...
\* was not expected" error, and once all have returned exactly min(m, n) have
\* succeeded.
C33_MinOfCallsAndExpectations ==
    RaceCase =>
        /\ \A ci, cj \in Succeeded :
              /\ res[ci].exp \in DOMAIN expected
              /\ ci # cj => res[ci].exp # res[cj].exp
        /\ \A ci \in DOMAIN calls :
              Returned(ci) /\ ci \notin Succeeded
                  => res[ci].code = "allFulfilled" /\ res[ci].exp = 0
        /\ (\A ci \in DOMAIN calls : Returned(ci))
              => Cardinality(Succeeded)
                     = IF Len(calls) < Len(expected) THEN Len(calls) ELSE Len(expected)

\* three Exec raced for two expectations: two succeeded with different
\* expectations, the third was refused
C33_ThreeForTwo ==
    /\ RaceCase /\ overlap
    /\ Len(calls) = 3 /\ Len(expected) = 2
    /\ \A ci \in DOMAIN calls : Returned(ci)
    /\ Cardinality(Succeeded) = 2
    /\ \E ci \in DOMAIN calls : res[ci].code = "allFulfilled"

\* ---------------------------------------------------------------- locks
\* caller p stands before a lock it cannot take
Blocked(p) == g[p].pc = "scan" /\ g[p].idx <= g[p].n /\ ~CanLock(p, g[p].idx)

\* C34: an expectation's lock is held only by a caller that has stopped at that
\* expectation and has its final part still to run, so a call that has returned
\* or that waits out a delay holds none; the driver lock is held only by a
\* Close that has not returned; whoever waits for an expectation's lock (a
\* caller, or ExpectationsWereMet) waits for a caller that needs no further
\* lock, and while calls are under way some caller can take its next step.
C34_LocksReleased ==
    /\ \A i \in DOMAIN mu :
          mu[i] # 0 => g[mu[i]].pc = "found" /\ g[mu[i]].exp = i
    /\ \A p \in Callers :
          /\ g[p].pc \in {"idle", "wait"} => \A i \in DOMAIN mu : mu[i] # p
          /\ g[p].pc = "found" => mu[g[p].exp] = p
          /\ Blocked(p) => mu[g[p].idx] # p /\ g[mu[g[p].idx]].pc = "found"
    /\ drvMu # 0 => /\ g[drvMu].pc \in {"scan", "found"}
                    /\ calls[g[drvMu].ci].op = "Close"
    /\ (vpc = "walk" /\ vidx <= vn /\ mu[vidx] # 0) => g[mu[vidx]].pc = "found"
    /\ Busy # {} => \E p \in Busy : ~Blocked(p)

\* a Close that holds the driver lock stands before the lock of an expectation
\* that a Begin has stopped at and holds
C34_CloseWaitsForBegin ==
    \E p, q \in Callers :
        /\ drvMu = p /\ Blocked(p)
        /\ mu[g[p].idx] = q
        /\ calls[g[q].ci].op = "Begin"

\* ---------------------------------------------------------------- open connections
\* instance t is the only one that was ever stored under its identifier
OnlyOne(pl, t) ==
    \A j \in DOMAIN pl.made :
        (j # t /\ pl.made[j].phase # "rejected") => pl.made[j].dsn # pl.made[t].dsn

\* the map holds instance t under its identifier
InPool(pl, t) == <<pl.made[t].dsn, t>> \in pl.conns

\* what C35 says of instance t in a step
CounterAndRegistry(t) ==
    /\ pool'.made[t].opened = pool'.made[t].opens - pool'.made[t].closes
    /\ pool'.made[t].opened > 0 => InPool(pool', t)
    /\ t \in DOMAIN pool.made
          => /\ (InPool(pool, t) /\ ~InPool(pool', t))
                    <=> /\ pool'.made[t].closes = pool.made[t].closes + 1
                        /\ pool'.made[t].opened = 0
             /\ (pool.made[t].opened > 0
                    /\ Len(pool'.made[t].conn) > Len(pool.made[t].conn))
                    => /\ pool'.made[t].conn[Len(pool'.made[t].conn)] = t
                       /\ pool'.made[t].opened = pool.made[t].opened + 1

C36_RowsAsWideAsColumns ==
    \A k \in DOMAIN built.rows : Len(built.rows[k]) = built.cols

\* FromCSVString was given two records of one field for MaxCols columns: two
\* rows were stored, each filled up with nil
C36_ShortRecordsPadded ==
    /\ built.out = "csv"
    /\ built.cols = MaxCols
    /\ Len(built.csv) = 2 /\ Len(built.csv[1]) = 1 /\ Len(built.csv[2]) = 1
    /\ built.csv[1][1] = Given("text", MaxByte)
    /\ Len(built.rows) >= 2
    /\ built.rows[Len(built.rows)][MaxCols] = Given("nil", 0)
    /\ built.rows[Len(built.rows) - 1][1] = Given("bytes", MaxByte)

\* C37: in the first driver's single connection, an Exec or Query that is
\* refused because its text or its arguments do not match the expectation in
\* line leaves that expectation unfulfilled, so that a Close which follows
\* reports it as the remaining expectation
C37_RefusedStaysOpen ==
    [][/\ (\A i \in DOMAIN legacy'.expectations :
              legacy'.expectations[i].how = "refused"
                  => ~legacy'.expectations[i].triggered)
       /\ (legacy.closed.out = "none" /\ legacy'.closed.out # "none"
             => \A i \in DOMAIN legacy.expectations :
                   legacy.expectations[i].how = "refused"
                       => legacy'.closed = [idx |-> i, out |-> "remaining"])]_vars

\* C38: when the same declared rows are the outcome of two expectations, each
\* query delivers them in full from the first row: the n-th row a query
\* delivers from a result set is the n-th declared row of that set, and the
\* end is reported only after all of them, or after the row that carries a
\* RowError
C38_EachFromFirstRow ==
    /\ app.got \in {"row", "err"} =>
          /\ app.n = rs.pos
          /\ app.dest[2] = IntCell(RowNo(rs.setPos + 1, app.n))
    /\ app.got = "eof" => app.n = Len(rs.rows)

\* C39: in the goroutine-based context wrappers, once a call has chosen to
\* return because its context was cancelled, its worker goroutine neither
\* panics by sending on the closed channel nor is left waiting in its send
\* after the call has returned
C39_WorkerEndsQuietly ==
    \A i \in DOMAIN worker :
        worker[i].ret = "cancelled" =>
            /\ worker[i].wk # "panic"
            /\ worker[i].pc = "returned" => worker[i].wk # "sending"

====
